---------------------------- MODULE Spec2Model ----------------------------
(***************************************************************************)
(* A model of soulteary/session-kit: the Storage contract with its two     *)
(* backends (MemoryStorage, RedisStorage), the generic record store        *)
(* (RedisStore), the store constructors, the background sweep of the       *)
(* in-process store, and the session Manager.                              *)
(*                                                                         *)
(* Strings that the code inspects character by character (key prefixes,    *)
(* keys, SCAN patterns, JSON strings) are sequences of one-character       *)
(* strings.  Byte payloads are sequences of small integers or, for what    *)
(* json.Marshal writes, sequences of JSON members.  Time is an integer     *)
(* clock; 0 is Go's zero time.Time, and the clock starts at 1.             *)
(***************************************************************************)
EXTENDS Integers, Sequences, FiniteSets, TLC

(***************************************************************************)
(* Bounds of the model.                                                    *)
(***************************************************************************)
MaxTime == 3          \* the clock runs from 1 to MaxTime
MaxTTL == 1           \* expirations passed to Set range over 0..MaxTTL
MaxLen == 3           \* configured prefixes have up to MaxLen characters
MaxCloses == 2        \* Close is called up to MaxCloses times
MaxSets == 3          \* callers that run next to each other begin up to
                      \* MaxSets calls of Set between them

(***************************************************************************)
(* Input sets.                                                             *)
(***************************************************************************)
Keys == {<<>>, <<"k">>, <<"j">>}          \* logical keys; <<>> is ""
RedisKeys == {<<>>, <<"k">>}              \* per store on a shared server
Payloads == {<<>>, <<1>>, <<2>>}          \* byte payloads; <<>> is empty
Bytes == {1, 2}
TTLs == 0..MaxTTL
PrefixChars == {"a", ":", "*"}
Times == 0..(MaxTime + MaxTTL + 1)        \* the instants a record can hold

ZeroTime == 0
ErrNil == "nil"                           \* Go's nil error
ErrNilClient == "redis client is nil"
ErrClientClosed == "redis: client is closed"
ErrUnmarshal == "failed to unmarshal session"

\* What Get hands back: a byte slice, or nil.
Absent == [found |-> FALSE, data |-> <<>>]
Found(p) == [found |-> TRUE, data |-> p]

(***************************************************************************)
(* State.                                                                  *)
(***************************************************************************)
VARIABLES
  now,          \* wall clock, time.Now()
  cfg,          \* the configuration the stores under test are built from
  config,       \* the session Config of the Manager and of CreateCookie
  keyPrefix,    \* keyPrefix[s]: the prefix store s keeps (<<>>: not built yet)
  written,      \* history: full key -> the last successful Set still standing,
                \* [val, ttl > 0, the clock value of the Set plus ttl]
  data,         \* MemoryStorage.data: full key -> memoryEntry
  buf,          \* the buffer the caller passed to Set and still holds, with
                \* the full key it passed it for
  gcPc,         \* where the runGC goroutine is ("none": never started)
  tickReady,    \* a tick is waiting in gcTicker.C
  stopped,      \* gcTicker.Stop() was called
  done,         \* "open" or "closed": the channel MemoryStorage.done
  sweepsAfterClose, \* history: sweep passes run after a Close returned
  closes,       \* history: the calls of Close made so far
  saved,        \* history: full key -> the record SaveSession last stored
  held,         \* the SessionData the caller holds: <<>> or <<record>>
  ret,          \* the call the last step made, with what it returned
  calls,        \* calls[p]: the call caller p is in the middle of
  race,         \* history: the calls that overlap, and what they found
  rdb,          \* the Redis server's keyspace: full key -> [val, expireAt]
  client        \* client[s]: the store's client, "nil", "open" or "closed"

vars == <<now, cfg, config, keyPrefix, written, data, buf, gcPc, tickReady,
          stopped, done, sweepsAfterClose, closes, saved, held, ret, calls,
          race, rdb, client>>

confVars == <<cfg, config, keyPrefix, client>>
gcVars == <<gcPc, tickReady, stopped, done, sweepsAfterClose, closes>>
raceVars == <<calls, race>>

kind == cfg.Type
gcTicker == cfg.Type = "memory" /\ cfg.MemoryGCInterval > 0
asyncTimer == cfg.AsyncTimer   \* timer channels are buffered (Go before 1.23)

(***************************************************************************)
(* Maps.                                                                   *)
(***************************************************************************)
Restrict(f, S) == [x \in S |-> f[x]]
Put(f, k, v) == [x \in DOMAIN f \cup {k} |-> IF x = k THEN v ELSE f[x]]
Remove(f, k) == [x \in DOMAIN f \ {k} |-> f[x]]
EmptyMap == [x \in {} |-> 0]
IsPrefixOf(p, s) == Len(p) <= Len(s) /\ SubSeq(s, 1, Len(p)) = p

(***************************************************************************)
(* Key prefixes: the three store constructors.                             *)
(***************************************************************************)
DefaultPrefix == <<"s", "e", "s", "s", "i", "o", "n", ":">>   \* "session:"

\* NewMemoryStorage: the prefix the in-process store keeps.
NewMemoryStoragePrefix(p) ==
  IF p = <<>> THEN DefaultPrefix
  ELSE IF Len(p) > 0 /\ p[Len(p)] # ":" THEN Append(p, ":")
  ELSE p

\* A constructor that keeps the configured prefix as it is.
KeepPrefix(p) == p

\* NewRedisStorage: the prefix the networked store keeps.
NewRedisStoragePrefix(p) ==
  IF p = <<>> THEN DefaultPrefix
  ELSE IF Len(p) > 0 /\ p[Len(p)] # ":" THEN Append(p, ":")
  ELSE p

\* NewRedisStore: the prefix the generic record store keeps.
NewRedisStorePrefix(p) ==
  IF p # <<>> /\ p[Len(p)] # ":" THEN Append(p, ":") ELSE p

\* The prefix a store of the given type keeps for a configured prefix.
NewPrefix(type, p) ==
  IF type = "memory" THEN NewMemoryStoragePrefix(p)
  ELSE IF type = "redis" THEN NewRedisStoragePrefix(p)
  ELSE NewRedisStorePrefix(p)

\* buildKey of both backends and RedisStore.key: the full key.
buildKey(s, key) == keyPrefix[s] \o key

(***************************************************************************)
(* MemoryStorage.  An entry keeps its bytes, its expiry and whether its    *)
(* byte slice shares the backing array of the buffer the caller holds.     *)
(***************************************************************************)
\* An expiry check that counts the expiry instant itself as expired.
isExpiredAtDeadline(e) ==
  IF e.expiresAt = ZeroTime THEN FALSE ELSE now >= e.expiresAt

\* memoryEntry.isExpired
isExpired(e) ==
  IF e.expiresAt = ZeroTime THEN FALSE ELSE now > e.expiresAt

\* An entry that keeps the caller's slice instead of a copy.
EntryDataShared(val) == [data |-> val, shared |-> TRUE]

\* An expiry that is set whatever the expiration is.
EntryExpiresAtAlways(exp) == now + exp

\* MemoryStorage.Set, "data: make([]byte, len(val))" and "copy(entry.data,
\* val)": the entry's slice is a fresh array with the bytes of val.
EntryData(val) == [data |-> val, shared |-> FALSE]

\* MemoryStorage.Set, "if exp > 0 { entry.expiresAt = time.Now().Add(exp) }".
EntryExpiresAt(exp) == IF exp > 0 THEN now + exp ELSE ZeroTime

\* MemoryStorage.Get: what it returns.
MemGetResult(d, fk) ==
  IF fk \notin DOMAIN d THEN Absent
  ELSE IF isExpired(d[fk]) THEN Absent
  ELSE Found(d[fk].data)

\* MemoryStorage.Get: the map after it; an expired entry is deleted.
MemGet(d, fk) ==
  IF fk \in DOMAIN d /\ isExpired(d[fk]) THEN Remove(d, fk) ELSE d

\* A Set that stores whatever it is given.
MemSetUnguarded(d, fk, key, val, exp) ==
  Put(d, fk, [data |-> val, shared |-> FALSE,
              expiresAt |-> IF exp > 0 THEN now + exp ELSE ZeroTime])

\* The caller passes a new buffer: no entry shares the one it held before.
Unshare(d) == [fk \in DOMAIN d |-> [d[fk] EXCEPT !.shared = FALSE]]

\* MemoryStorage.Set: the map after it.
MemSet(d, fk, key, val, exp) ==
  IF key = <<>> \/ Len(val) = 0 THEN Unshare(d)
  ELSE Put(Unshare(d), fk,
           [data |-> EntryData(val).data, shared |-> EntryData(val).shared,
            expiresAt |-> EntryExpiresAt(exp)])

\* MemoryStorage.Delete: the map after it.
MemDelete(d, fk) == Remove(d, fk)

\* MemoryStorage.Reset: the map after it.
MemReset(d) == EmptyMap

\* A pass that also removes the entries whose expiry instant is the clock's.
gcAtDeadline(d) == Restrict(d, {fk \in DOMAIN d : ~isExpiredAtDeadline(d[fk])})

\* A pass that removes nothing.
gcNothing(d) == d

\* MemoryStorage.gc: the map after one pass under the lock.
gc(d) == Restrict(d, {fk \in DOMAIN d : ~isExpired(d[fk])})

\* MemoryStorage.Len
MemLen(d) == Cardinality(DOMAIN d)

(***************************************************************************)
(* The Redis server.  It keeps each key with the instant it expires at     *)
(* (0: never) and drops a key once the clock is past that instant; SCAN    *)
(* MATCH is glob matching (here: *, ? and the escape \).                   *)
(***************************************************************************)
RECURSIVE GlobMatch(_, _)
GlobMatch(pat, str) ==
  IF pat = <<>> THEN str = <<>>
  ELSE IF Head(pat) = "*"
    THEN GlobMatch(Tail(pat), str) \/ (str # <<>> /\ GlobMatch(pat, Tail(str)))
  ELSE IF Head(pat) = "?"
    THEN str # <<>> /\ GlobMatch(Tail(pat), Tail(str))
  ELSE IF Head(pat) = "\\" /\ Len(pat) >= 2
    THEN str # <<>> /\ Head(str) = pat[2]
         /\ GlobMatch(Tail(Tail(pat)), Tail(str))
  ELSE str # <<>> /\ Head(str) = Head(pat) /\ GlobMatch(Tail(pat), Tail(str))

\* SET key val [PX exp]: a zero expiration sends no expiration directive.
ServerSet(db, fk, p, exp) ==
  Put(db, fk, [val |-> p, expireAt |-> IF exp > 0 THEN now + exp ELSE ZeroTime])

\* The keys the server still holds at clock value t.
ServerExpire(db, t) ==
  Restrict(db, {fk \in DOMAIN db :
                  db[fk].expireAt = ZeroTime \/ ~(t > db[fk].expireAt)})

\* SCAN 0 MATCH pattern, iterated to the end.
ServerScan(db, pattern) == {fk \in DOMAIN db : GlobMatch(pattern, fk)}

(***************************************************************************)
(* RedisStorage.                                                           *)
(***************************************************************************)
\* The error of a call on the client: the nil check, then the client's own.
ClientErr(s) ==
  IF client[s] = "nil" THEN ErrNilClient
  ELSE IF client[s] = "closed" THEN ErrClientClosed
  ELSE ErrNil

\* A Get that hands the server's "not found" on as an error.
RedisGetResultNilError(db, s, fk) ==
  IF fk \in DOMAIN db /\ client[s] = "open"
  THEN [val |-> Found(db[fk].val), err |-> ErrNil]
  ELSE [val |-> Absent, err |-> "redis: nil"]

\* RedisStorage.Get: redis.Nil becomes nil, nil.
RedisGetResult(db, s, fk) ==
  IF ClientErr(s) # ErrNil THEN [val |-> Absent, err |-> ClientErr(s)]
  ELSE IF fk \in DOMAIN db THEN [val |-> Found(db[fk].val), err |-> ErrNil]
  ELSE [val |-> Absent, err |-> ErrNil]

\* A Set that looks at its arguments before it looks at its client.
RedisSetErrEmptyFirst(s, key, val) ==
  IF key = <<>> \/ Len(val) = 0 THEN ErrNil
  ELSE ClientErr(s)

\* RedisStorage.Set: the error it returns.
RedisSetErr(s, key, val) ==
  IF client[s] = "nil" THEN ErrNilClient
  ELSE IF key = <<>> \/ Len(val) = 0 THEN ErrNil
  ELSE ClientErr(s)

\* RedisStorage.Set: the keyspace after it.
RedisSet(db, s, fk, key, val, exp) ==
  IF ClientErr(s) # ErrNil \/ key = <<>> \/ Len(val) = 0 THEN db
  ELSE ServerSet(db, fk, val, exp)

\* RedisStorage.Delete: the keyspace after it.
RedisDelete(db, s, fk) ==
  IF ClientErr(s) # ErrNil THEN db ELSE Remove(db, fk)

\* RedisStorage.Reset: SCAN keyPrefix + "*", then one DEL of what it found.
RedisReset(db, s) ==
  LET pattern == keyPrefix[s] \o <<"*">>
      keys == ServerScan(db, pattern)
  IN IF ClientErr(s) # ErrNil \/ keys = {} THEN db
     ELSE Restrict(db, DOMAIN db \ keys)

(***************************************************************************)
(* The Storage contract over both backends.  St is what the stores keep:   *)
(* the map of the in-process store and the keyspace of the Redis server.   *)
(***************************************************************************)
St == [data |-> data, rdb |-> rdb]

\* Storage.Get: the payload and the error it returns.
GetResult(st, s, key) ==
  IF kind = "memory"
  THEN [val |-> MemGetResult(st.data, buildKey(s, key)), err |-> ErrNil]
  ELSE RedisGetResult(st.rdb, s, buildKey(s, key))

\* Storage.Get: what the stores keep after it.
AfterGet(st, s, key) ==
  IF kind = "memory"
  THEN [st EXCEPT !.data = MemGet(st.data, buildKey(s, key))]
  ELSE st

\* Storage.Set: the error it returns.
SetErr(s, key, val) ==
  IF kind = "memory" THEN ErrNil ELSE RedisSetErr(s, key, val)

\* Storage.Set: what the stores keep after it.
AfterSet(st, s, key, val, exp) ==
  IF kind = "memory"
  THEN [st EXCEPT !.data = MemSet(st.data, buildKey(s, key), key, val, exp)]
  ELSE [st EXCEPT !.rdb = RedisSet(st.rdb, s, buildKey(s, key), key, val, exp)]

\* Storage.Delete: the error it returns.
DeleteErr(s) == IF kind = "memory" THEN ErrNil ELSE ClientErr(s)

\* Storage.Delete: what the stores keep after it.
AfterDelete(st, s, key) ==
  IF kind = "memory"
  THEN [st EXCEPT !.data = MemDelete(st.data, buildKey(s, key))]
  ELSE [st EXCEPT !.rdb = RedisDelete(st.rdb, s, buildKey(s, key))]

\* Storage.Reset: the error it returns.
ResetErr(s) == IF kind = "memory" THEN ErrNil ELSE ClientErr(s)

\* Storage.Reset: what the stores keep after it.
AfterReset(st, s) ==
  IF kind = "memory"
  THEN [st EXCEPT !.data = MemReset(st.data)]
  ELSE [st EXCEPT !.rdb = RedisReset(st.rdb, s)]

\* Whether Set stores anything.
Stores(s, key, val) == SetErr(s, key, val) = ErrNil /\ key # <<>> /\ Len(val) > 0

(***************************************************************************)
(* encoding/json, as far as the records of this package go.  A JSON text   *)
(* is kept as the document it spells: an object is a function from member  *)
(* names to JSON values.  A Go string is a sequence of characters, "xff"   *)
(* standing for a byte that is no valid UTF-8 and "ufffd" for U+FFFD.  A   *)
(* value held in an interface{} carries its dynamic type.  A time.Time is  *)
(* its instant and whether it carries a monotonic clock reading.  A nil    *)
(* map or slice and an empty one are not told apart.                       *)
(***************************************************************************)
GoString(str) == [type |-> "string", v |-> str]
GoInt(digits) == [type |-> "int", v |-> digits]
GoFloat64(digits) == [type |-> "float64", v |-> digits]
GoBool(b) == [type |-> "bool", v |-> <<IF b THEN "true" ELSE "false">>]

\* time.Now()
TimeNow == [wall |-> now, mono |-> TRUE]
\* Time.Add
TimeAdd(t, d) == [t EXCEPT !.wall = t.wall + d]

JString(str) == [t |-> "string", v |-> str]
JNumber(digits) == [t |-> "number", v |-> digits]
JBool(v) == [t |-> "bool", v |-> v]
JArray(seq) == [t |-> "array", v |-> seq]
JObject(members) == [t |-> "object", v |-> members]

\* json.Marshal of a string: invalid UTF-8 is written as U+FFFD.
CoerceUTF8(str) ==
  [i \in 1..Len(str) |-> IF str[i] = "xff" THEN "ufffd" ELSE str[i]]

\* Time.MarshalJSON: RFC 3339 with nanoseconds, of the wall clock instant.
MarshalTime(t) == JString(<<"T", ToString(t.wall)>>)

\* Time.UnmarshalJSON: the instant, without a monotonic reading.
UnmarshalTime(j) ==
  [wall |-> CHOOSE n \in Times : ToString(n) = j.v[2], mono |-> FALSE]

\* Time.UnmarshalJSON fails on what is no JSON string of an RFC 3339 time.
UnmarshalTimeFails(j) == j.t # "string" \/ Len(j.v) # 2 \/ j.v[1] # "T"

\* json.Marshal of a value in an interface{}.
MarshalValue(g) ==
  IF g.type = "string" THEN JString(CoerceUTF8(g.v))
  ELSE IF g.type = "bool" THEN JBool(g.v)
  ELSE JNumber(g.v)

\* json.Unmarshal into an interface{}: every number is a float64.
UnmarshalValue(j) ==
  IF j.t = "string" THEN GoString(j.v)
  ELSE IF j.t = "bool" THEN [type |-> "bool", v |-> j.v]
  ELSE GoFloat64(j.v)

\* json.Marshal of a map[string]interface{}.
MarshalMap(m) == JObject([k \in DOMAIN m |-> MarshalValue(m[k])])

\* json.Unmarshal into a map[string]interface{}.
UnmarshalMap(j) == [k \in DOMAIN j.v |-> UnmarshalValue(j.v[k])]

\* A []string written back to front.
MarshalStringsReversed(seq) ==
  JArray([i \in 1..Len(seq) |-> JString(CoerceUTF8(seq[Len(seq) + 1 - i]))])

\* json.Marshal of a []string.
MarshalStrings(seq) == JArray([i \in 1..Len(seq) |-> JString(CoerceUTF8(seq[i]))])

\* json.Unmarshal into a []string.
UnmarshalStrings(j) == [i \in 1..Len(j.v) |-> j.v[i].v]

\* A member of a struct: "omitempty" leaves out an empty value.
Member(name, omit, j) == IF omit THEN EmptyMap ELSE name :> j

\* The value of a member, or the zero value when the member is missing.
Field(doc, name, zero) == IF name \in DOMAIN doc THEN doc[name] ELSE zero

(***************************************************************************)
(* RedisStore, the generic record store, and its KVSessionRecord.          *)
(***************************************************************************)
\* json.Marshal of a KVSessionRecord: the bytes RedisStore.Set writes.
MarshalRecord(rec) ==
  << Member("id", FALSE, JString(CoerceUTF8(rec.ID)))
     @@ Member("data", FALSE, MarshalMap(rec.Data))
     @@ Member("created_at", FALSE, MarshalTime(rec.CreatedAt))
     @@ Member("expires_at", FALSE, MarshalTime(rec.ExpiresAt)) >>

\* json.Unmarshal into a KVSessionRecord.
UnmarshalRecord(body) ==
  LET doc == body[1] IN
  [ID |-> Field(doc, "id", JString(<<>>)).v,
   Data |-> UnmarshalMap(Field(doc, "data", JObject(EmptyMap))),
   CreatedAt |-> UnmarshalTime(doc["created_at"]),
   ExpiresAt |-> UnmarshalTime(doc["expires_at"])]

ErrUnmarshalRecord == "unmarshal session"

\* The JSON type json.Unmarshal needs for a member of a KVSessionRecord.
RecordMemberType(name) == IF name = "data" THEN "object" ELSE "string"

\* json.Unmarshal into a KVSessionRecord: the error it returns.  A text
\* with anything after its top-level value is a syntax error; a member of
\* the wrong JSON type, or a time that does not parse, is an error too.
UnmarshalRecordErr(body) ==
  IF Len(body) # 1 THEN ErrUnmarshalRecord
  ELSE IF \E name \in DOMAIN body[1]
                     \cap {"id", "data", "created_at", "expires_at"} :
            \/ body[1][name].t # RecordMemberType(name)
            \/ /\ name \in {"created_at", "expires_at"}
               /\ UnmarshalTimeFails(body[1][name])
    THEN ErrUnmarshalRecord
  ELSE ErrNil

\* RedisStore.Get: the record and the error it returns.
RedisStoreGetResult(db, s, fk) ==
  IF client[s] = "nil" THEN [val |-> Absent, err |-> ErrNilClient]
  ELSE IF ClientErr(s) # ErrNil THEN [val |-> Absent, err |-> ClientErr(s)]
  ELSE IF fk \notin DOMAIN db THEN [val |-> Absent, err |-> ErrNil]
  ELSE IF UnmarshalRecordErr(db[fk].val) # ErrNil
    THEN [val |-> Absent, err |-> UnmarshalRecordErr(db[fk].val)]
  ELSE IF now > UnmarshalRecord(db[fk].val).ExpiresAt.wall
    THEN [val |-> Absent, err |-> ErrNil]
  ELSE [val |-> Found(UnmarshalRecord(db[fk].val)), err |-> ErrNil]

\* A Get that leaves a record past its ExpiresAt where it is.
RedisStoreGetKeep(db, s, fk) == db

\* RedisStore.Get: the keyspace after it; a record past its ExpiresAt is
\* deleted.
RedisStoreGet(db, s, fk) ==
  IF /\ ClientErr(s) = ErrNil /\ fk \in DOMAIN db
     /\ UnmarshalRecordErr(db[fk].val) = ErrNil
     /\ now > UnmarshalRecord(db[fk].val).ExpiresAt.wall
  THEN Remove(db, fk) ELSE db

\* RedisStore.Set: the error it returns.
RedisStoreSetErr(s) == ClientErr(s)

\* A Set that stamps every record it writes with the current time.
RedisStoreSetFresh(db, s, fk, id, d, ttl) ==
  IF ClientErr(s) # ErrNil THEN db
  ELSE ServerSet(RedisStoreGet(db, s, fk), fk,
                 MarshalRecord([ID |-> id, Data |-> d, CreatedAt |-> TimeNow,
                                ExpiresAt |-> TimeAdd(TimeNow, ttl)]), ttl)

\* The error of the Get that RedisStore.Set makes first, where gerr is the
\* error of that Get's round trip to the server (nil: the round trip is
\* made).  Without a client Set returns before it.
PreReadErr(db, s, fk, gerr) ==
  IF client[s] = "nil" THEN ErrNil
  ELSE IF gerr # ErrNil THEN gerr
  ELSE RedisStoreGetResult(db, s, fk).err

\* A Set that writes nothing when its Get returned an error.
RedisStoreSetGivesUp(db, s, fk, id, d, ttl, gerr) ==
  LET existing == RedisStoreGetResult(db, s, fk).val
      createdAt == IF existing.found THEN existing.data.CreatedAt ELSE TimeNow
      rec == [ID |-> id, Data |-> d, CreatedAt |-> createdAt,
              ExpiresAt |-> TimeAdd(TimeNow, ttl)]
  IN IF PreReadErr(db, s, fk, gerr) # ErrNil THEN db
     ELSE ServerSet(RedisStoreGet(db, s, fk), fk, MarshalRecord(rec), ttl)

\* RedisStore.Set: the keyspace after it.  "existing, _ := s.Get(ctx, id)":
\* CreatedAt of a record that Get returns is kept, and Get's error is
\* dropped.
RedisStoreSetPre(db, s, fk, id, d, ttl, gerr) ==
  LET existing == IF gerr # ErrNil THEN Absent
                  ELSE RedisStoreGetResult(db, s, fk).val
      createdAt == IF existing.found THEN existing.data.CreatedAt ELSE TimeNow
      rec == [ID |-> id, Data |-> d, CreatedAt |-> createdAt,
              ExpiresAt |-> TimeAdd(TimeNow, ttl)]
  IN IF ClientErr(s) # ErrNil THEN db
     ELSE ServerSet(IF gerr # ErrNil THEN db ELSE RedisStoreGet(db, s, fk),
                    fk, MarshalRecord(rec), ttl)

\* RedisStore.Set: the keyspace after it.  CreatedAt of a record that Get
\* still returns is kept.
RedisStoreSet(db, s, fk, id, d, ttl) ==
  RedisStoreSetPre(db, s, fk, id, d, ttl, ErrNil)

\* A Delete that leaves the key where it is.
RedisStoreDeleteKeep(db, s, fk) == db

\* RedisStore.Delete: the keyspace after it.
RedisStoreDelete(db, s, fk) ==
  IF ClientErr(s) # ErrNil THEN db ELSE Remove(db, fk)

\* NewKVManager(store, defaultTTL): the default of the manager under test.
KVDefaultTTL == MaxTTL + 1

\* A substitution that replaces a zero time to live only.
KVTTLZeroOnly(ttl) == IF ttl = 0 THEN KVDefaultTTL ELSE ttl

\* KVManager.Create, Set, Refresh: "if ttl <= 0 { ttl = m.defaultTTL }".
KVTTL(ttl) == IF ttl <= 0 THEN KVDefaultTTL ELSE ttl

\* A Refresh that goes on whenever Get returned no error.
RefreshFindsAlways(got) == got.err = ErrNil

\* KVManager.Refresh: "if err != nil || rec == nil { return err }" is passed.
RefreshFinds(got) == got.err = ErrNil /\ got.val.found

\* A Refresh that writes the record back with no data.
RecordDataNone(val) == EmptyMap

\* rec.Data of what RedisStore.Get returned.
RecordData(val) == IF val.found THEN val.data.Data ELSE EmptyMap

(***************************************************************************)
(* SessionData and its JSON form.                                          *)
(***************************************************************************)
\* json.Marshal of a SessionData: the bytes SaveSession stores.
MarshalSession(r) ==
  << Member("id", FALSE, JString(CoerceUTF8(r.ID)))
     @@ Member("user_id", r.UserID = <<>>, JString(CoerceUTF8(r.UserID)))
     @@ Member("email", r.Email = <<>>, JString(CoerceUTF8(r.Email)))
     @@ Member("phone", r.Phone = <<>>, JString(CoerceUTF8(r.Phone)))
     @@ Member("authenticated", FALSE, JBool(r.Authenticated))
     @@ Member("data", DOMAIN r.Data = {}, MarshalMap(r.Data))
     @@ Member("created_at", FALSE, MarshalTime(r.CreatedAt))
     @@ Member("expires_at", FALSE, MarshalTime(r.ExpiresAt))
     @@ Member("last_accessed_at", FALSE, MarshalTime(r.LastAccessedAt))
     @@ Member("amr", r.AMR = <<>>, MarshalStrings(r.AMR))
     @@ Member("scopes", r.Scopes = <<>>, MarshalStrings(r.Scopes)) >>

\* json.Unmarshal into a SessionData.
UnmarshalSession(body) ==
  LET doc == body[1] IN
  [ID |-> Field(doc, "id", JString(<<>>)).v,
   UserID |-> Field(doc, "user_id", JString(<<>>)).v,
   Email |-> Field(doc, "email", JString(<<>>)).v,
   Phone |-> Field(doc, "phone", JString(<<>>)).v,
   Authenticated |-> Field(doc, "authenticated", JBool(FALSE)).v,
   Data |-> UnmarshalMap(Field(doc, "data", JObject(EmptyMap))),
   CreatedAt |-> UnmarshalTime(doc["created_at"]),
   ExpiresAt |-> UnmarshalTime(doc["expires_at"]),
   LastAccessedAt |-> UnmarshalTime(doc["last_accessed_at"]),
   AMR |-> UnmarshalStrings(Field(doc, "amr", JArray(<<>>))),
   Scopes |-> UnmarshalStrings(Field(doc, "scopes", JArray(<<>>)))]

\* The JSON type json.Unmarshal needs for a member of a SessionData.
MemberType(name) ==
  IF name = "authenticated" THEN "bool"
  ELSE IF name = "data" THEN "object"
  ELSE IF name \in {"amr", "scopes"} THEN "array"
  ELSE "string"

\* json.Unmarshal into a SessionData: the error it returns.  A text with
\* anything after its top-level value is a syntax error; a member of the
\* wrong JSON type, or a time that does not parse, is an error too.
UnmarshalSessionErr(body) ==
  IF Len(body) # 1 THEN ErrUnmarshal
  ELSE IF \E name \in DOMAIN body[1] :
            \/ body[1][name].t # MemberType(name)
            \/ /\ name \in {"created_at", "expires_at", "last_accessed_at"}
               /\ UnmarshalTimeFails(body[1][name])
    THEN ErrUnmarshal
  ELSE ErrNil

\* NewSessionData
NewSessionData(id, expiration) ==
  [ID |-> id, UserID |-> <<>>, Email |-> <<>>, Phone |-> <<>>,
   Authenticated |-> FALSE, Data |-> EmptyMap, CreatedAt |-> TimeNow,
   ExpiresAt |-> TimeAdd(TimeNow, expiration), LastAccessedAt |-> TimeNow,
   AMR |-> <<>>, Scopes |-> <<>>]

\* An append that does not look for the entry first.
AppendAlways(seq, e) == Append(seq, e)

\* SessionData.AddAMR and SessionData.AddScope: the slice after the call.
AppendUnique(seq, e) ==
  IF \E i \in 1..Len(seq) : seq[i] = e THEN seq ELSE Append(seq, e)

\* An expiry check that never finds a session expired.
IsExpiredNever(r) == FALSE

\* SessionData.IsExpired
IsExpired(r) == now > r.ExpiresAt.wall

\* A Touch that leaves the record as it is.
TouchNothing(r) == r

\* SessionData.Touch
Touch(r) == [r EXCEPT !.LastAccessedAt = TimeNow]

\* Config.Expiration of the Manager under test.
ConfigExpiration == MaxTTL

\* A time to live that is max(0, ExpiresAt - now), with no fallback.
SaveTTLClamped(r) ==
  IF r.ExpiresAt.wall - now <= 0 THEN 0 ELSE r.ExpiresAt.wall - now

\* Manager.SaveSession: the time to live it passes to Storage.Set.
SaveTTL(r) ==
  IF r.ExpiresAt.wall - now <= 0 THEN ConfigExpiration
  ELSE r.ExpiresAt.wall - now

(***************************************************************************)
(* The session Config: its defaults, its setters, Validate, and the cookie *)
(* attributes CreateCookie and Manager.FiberSessionConfig derive from it.  *)
(* The same-site setting is a string: a sequence of characters.            *)
(***************************************************************************)
UpperCase == <<"A", "B", "C", "D", "E", "F", "G", "H", "I", "J", "K", "L", "M",
               "N", "O", "P", "Q", "R", "S", "T", "U", "V", "W", "X", "Y", "Z">>
LowerCase == <<"a", "b", "c", "d", "e", "f", "g", "h", "i", "j", "k", "l", "m",
               "n", "o", "p", "q", "r", "s", "t", "u", "v", "w", "x", "y", "z">>

\* strings.ToLower, on the letters of ASCII.
ToLower(str) ==
  [i \in 1..Len(str) |->
     IF \E n \in DOMAIN UpperCase : UpperCase[n] = str[i]
     THEN LowerCase[CHOOSE n \in DOMAIN UpperCase : UpperCase[n] = str[i]]
     ELSE str[i]]

\* strings.TrimSpace: the string without its leading and trailing white space.
IsSpace(ch) == ch \in {" ", "\t", "\n", "\r"}

RECURSIVE TrimSpace(_)
TrimSpace(str) ==
  IF str = <<>> THEN str
  ELSE IF IsSpace(Head(str)) THEN TrimSpace(Tail(str))
  ELSE IF IsSpace(str[Len(str)]) THEN TrimSpace(SubSeq(str, 1, Len(str) - 1))
  ELSE str

SameSiteStrict == <<"S", "t", "r", "i", "c", "t">>
SameSiteLax == <<"L", "a", "x">>
SameSiteNone == <<"N", "o", "n", "e">>
SameSiteDisabled == <<"D", "i", "s", "a", "b", "l", "e", "d">>

\* A normalization that compares the setting as it was written.
normalizeSameSiteExact(value) == value

\* normalizeSameSite: the canonical spelling of a setting it recognizes, and
\* the setting itself otherwise.
normalizeSameSite(value) ==
  LET folded == ToLower(TrimSpace(value)) IN
  IF folded = ToLower(SameSiteStrict) THEN SameSiteStrict
  ELSE IF folded = ToLower(SameSiteLax) THEN SameSiteLax
  ELSE IF folded = ToLower(SameSiteNone) THEN SameSiteNone
  ELSE IF folded = ToLower(SameSiteDisabled) THEN SameSiteDisabled
  ELSE value

\* DefaultConfig.  The expiration (24 hours) is the ConfigExpiration of the
\* model's clock; the cookie name, "session_id", is kept as one character.
DefaultConfig ==
  [Expiration |-> ConfigExpiration, CookieName |-> <<"s">>,
   CookieDomain |-> <<>>, CookiePath |-> <<"/">>, Secure |-> TRUE,
   HTTPOnly |-> TRUE, SameSite |-> SameSiteLax]

\* Config{}: every field at its zero value.
ZeroConfig ==
  [Expiration |-> 0, CookieName |-> <<>>, CookieDomain |-> <<>>,
   CookiePath |-> <<>>, Secure |-> FALSE, HTTPOnly |-> FALSE,
   SameSite |-> <<>>]

\* Config.Validate: the error it returns.
ValidateErr(c) ==
  LET normalized == normalizeSameSite(c.SameSite) IN
  IF c.CookieName = <<>> THEN "cookie name cannot be empty"
  ELSE IF c.CookiePath = <<>> THEN "cookie path cannot be empty"
  ELSE IF c.Expiration < 0 THEN "expiration must be >= 0"
  ELSE IF normalized \notin {SameSiteStrict, SameSiteLax, SameSiteNone,
                             SameSiteDisabled, <<>>}
    THEN "invalid same-site value"
  ELSE IF normalized = SameSiteNone /\ ~c.Secure
    THEN "same-site None requires Secure=true"
  ELSE ErrNil

\* The same-site mode of the cookie: fiber's constant for the setting.
CookieSameSite(c) ==
  LET normalized == normalizeSameSite(c.SameSite) IN
  IF normalized = SameSiteStrict THEN "strict"
  ELSE IF normalized = SameSiteNone THEN "none"
  ELSE IF normalized = SameSiteDisabled THEN "disabled"
  ELSE "lax"

\* A Secure attribute that is the configured flag.
CookieSecureAsConfigured(c) == c.Secure

\* The Secure attribute of the cookie.
CookieSecure(c) ==
  IF normalizeSameSite(c.SameSite) = SameSiteNone /\ ~c.Secure THEN TRUE
  ELSE c.Secure

(***************************************************************************)
(* The configurations the stores are built from.                           *)
(***************************************************************************)
Config(type, prefixes, clients, gcInterval, async) ==
  [Type |-> type, KeyPrefix |-> prefixes, RedisClient |-> clients,
   MemoryGCInterval |-> gcInterval, AsyncTimer |-> async]

\* One in-process store, with and without the sweep.
MemoryConfigs ==
  {Config("memory", <<<<"a">>>>, <<"nil">>, g, FALSE) : g \in {0, 1}}

RedisPrefixPairs ==
  { << <<"a">>, <<"b">> >>,                 \* "a:" and "b:"
    << <<"a">>, <<"a", ":", "b">> >>,       \* "a:" and "a:b:"
    << <<"a", "*">>, <<"a", "b">> >> }      \* "a*:" and "ab:"

\* Two networked stores on one server; one of them may lack its client.
RedisConfigs ==
  {Config("redis", pp, <<"open", "open">>, 0, FALSE) : pp \in RedisPrefixPairs}
  \cup {Config("redis", << <<"a">>, <<"b">> >>, <<"nil", "open">>, 0, FALSE)}

\* One generic record store, with and without its client.
StoreConfigs ==
  {Config("store", <<<<"a">>>>, <<c>>, 0, FALSE) : c \in {"open", "nil"}}

\* One in-process store for each way the sweep can run; one networked store.
CloseConfigs ==
  {Config("memory", <<<<"a">>>>, <<"nil">>, ga[1], ga[2]) :
     ga \in {<<0, FALSE>>, <<1, FALSE>>, <<1, TRUE>>}}
  \cup {Config("redis", <<<<"a">>>>, <<c>>, 0, FALSE) : c \in {"open", "nil"}}

Prefixes == UNION {[1..n -> PrefixChars] : n \in 0..MaxLen}

\* Every configured prefix, for each constructor.
PrefixConfigs ==
  {Config(type, <<p>>, <<"open">>, 0, FALSE) :
     type \in {"memory", "redis", "store"}, p \in Prefixes}

\* The callers that run next to each other, and a caller between two calls.
Procs == {1, 2, 3}
NoCalls == [p \in Procs |-> [pc |-> "idle", key |-> <<>>, entry |-> <<>>]]

\* No call has been made yet.
NoRace == [begun |-> 0, size |-> 0, wrote |-> {}, prior |-> <<>>]

Idle == [op |-> "none", store |-> 0, key |-> <<>>, arg |-> <<>>,
         val |-> Absent, err |-> ErrNil, panic |-> FALSE]

NoBuf == [bytes |-> <<>>, key |-> <<>>]

\* The state before a constructor has run.
Unbuilt(c) ==
  /\ now = 1
  /\ cfg = c
  /\ config = DefaultConfig
  /\ keyPrefix = <<>>
  /\ client = c.RedisClient
  /\ rdb = EmptyMap
  /\ data = EmptyMap
  /\ buf = NoBuf
  /\ gcPc = "none"
  /\ tickReady = FALSE
  /\ stopped = FALSE
  /\ done = "open"
  /\ sweepsAfterClose = 0
  /\ closes = 0
  /\ saved = EmptyMap
  /\ held = <<>>
  /\ ret = Idle
  /\ calls = NoCalls
  /\ race = NoRace
  /\ written = EmptyMap

\* NewStorage, NewMemoryStorage, NewRedisStorage, NewRedisStore, NewManager:
\* the state once the stores of configuration c are built and the Manager
\* has the session Config sc.
NewManager(c, sc) ==
  /\ now = 1
  /\ cfg = c
  /\ config = sc
  /\ keyPrefix = [s \in DOMAIN c.KeyPrefix |-> NewPrefix(c.Type, c.KeyPrefix[s])]
  /\ client = c.RedisClient
  /\ rdb = EmptyMap
  /\ data = EmptyMap
  /\ buf = NoBuf
  /\ gcPc = IF c.Type = "memory" /\ c.MemoryGCInterval > 0
            THEN "select" ELSE "none"
  /\ tickReady = FALSE
  /\ stopped = FALSE
  /\ done = "open"
  /\ sweepsAfterClose = 0
  /\ closes = 0
  /\ saved = EmptyMap
  /\ held = <<>>
  /\ ret = Idle
  /\ calls = NoCalls
  /\ race = NoRace
  /\ written = EmptyMap

\* The state once the stores of configuration c are built, under the default
\* session Config.
NewStorage(c) == NewManager(c, DefaultConfig)

\* The constructors as a step: the stores get their prefixes.
New ==
  /\ keyPrefix = <<>>
  /\ keyPrefix' = [s \in DOMAIN cfg.KeyPrefix |->
                     NewPrefix(cfg.Type, cfg.KeyPrefix[s])]
  /\ ret' = [Idle EXCEPT !.op = "New"]
  /\ UNCHANGED <<now, cfg, config, client, written, data, buf, gcVars, saved,
                 held, rdb, raceVars>>

StoreIds == DOMAIN keyPrefix
KeysOf == IF kind = "memory" THEN Keys ELSE RedisKeys

(***************************************************************************)
(* The calls of the Storage contract.                                      *)
(***************************************************************************)
Returned(op, s, key, arg, val, err) ==
  [op |-> op, store |-> s, key |-> key, arg |-> arg, val |-> val,
   err |-> err, panic |-> FALSE]

\* The full keys of the history a Reset of store s ends.
ResetKeys(s) ==
  IF kind = "memory" THEN DOMAIN written
  ELSE {fk \in DOMAIN written : GlobMatch(keyPrefix[s] \o <<"*">>, fk)}

Get(s, key) ==
  /\ kind \in {"memory", "redis"}
  /\ data' = AfterGet(St, s, key).data
  /\ rdb' = AfterGet(St, s, key).rdb
  /\ ret' = Returned("Get", s, key, <<>>, GetResult(St, s, key).val,
                     GetResult(St, s, key).err)
  /\ UNCHANGED <<now, confVars, written, buf, gcVars, saved, held, raceVars>>

\* keep: the caller goes on holding the buffer it passed.
Set(s, key, val, exp, keep) ==
  /\ kind \in {"memory", "redis"}
  /\ data' = AfterSet(St, s, key, val, exp).data
  /\ rdb' = AfterSet(St, s, key, val, exp).rdb
  /\ buf' = IF keep THEN [bytes |-> val, key |-> buildKey(s, key)] ELSE NoBuf
  /\ written' = IF Stores(s, key, val)
                THEN Put(written, buildKey(s, key),
                         [val |-> val, expiring |-> exp > 0,
                          until |-> now + exp])
                ELSE written
  /\ ret' = Returned("Set", s, key, val, Absent, SetErr(s, key, val))
  /\ UNCHANGED <<now, confVars, gcVars, saved, held, raceVars>>

Delete(s, key) ==
  /\ kind \in {"memory", "redis"}
  /\ data' = AfterDelete(St, s, key).data
  /\ rdb' = AfterDelete(St, s, key).rdb
  /\ written' = IF DeleteErr(s) = ErrNil
                THEN Remove(written, buildKey(s, key)) ELSE written
  /\ ret' = Returned("Delete", s, key, <<>>, Absent, DeleteErr(s))
  /\ UNCHANGED <<now, confVars, buf, gcVars, saved, held, raceVars>>

Reset(s) ==
  /\ kind \in {"memory", "redis"}
  /\ data' = AfterReset(St, s).data
  /\ rdb' = AfterReset(St, s).rdb
  /\ written' = IF ResetErr(s) = ErrNil
                THEN Restrict(written, DOMAIN written \ ResetKeys(s))
                ELSE written
  /\ ret' = Returned("Reset", s, <<>>, <<>>, Absent, ResetErr(s))
  /\ UNCHANGED <<now, confVars, buf, gcVars, saved, held, raceVars>>

\* The caller overwrites byte i of the buffer it holds; an entry whose slice
\* shares the buffer's backing array changes with it.
MutateBuf(i, b) ==
  /\ i \in 1..Len(buf.bytes)
  /\ b # buf.bytes[i]
  /\ buf' = [buf EXCEPT !.bytes[i] = b]
  /\ data' = [fk \in DOMAIN data |->
                IF data[fk].shared THEN [data[fk] EXCEPT !.data[i] = b]
                ELSE data[fk]]
  /\ ret' = [Idle EXCEPT !.op = "MutateBuf"]
  /\ UNCHANGED <<now, confVars, written, gcVars, saved, held, rdb, raceVars>>

\* Time passes; the Redis server drops what has expired.
Tick ==
  /\ now < MaxTime
  /\ now' = now + 1
  /\ rdb' = ServerExpire(rdb, now')
  /\ ret' = Idle
  /\ UNCHANGED <<confVars, written, data, buf, gcVars, saved, held, raceVars>>

(***************************************************************************)
(* The calls of the generic record store.                                  *)
(***************************************************************************)
\* The error of a Delete whose round trip to the server is lost.
ErrConnLost == "connection lost"

\* An error that is handed on to the caller.
DiscardReturned(err) == err

\* "_ = m.storage.Delete(id)" and "_ = s.client.Del(ctx, s.key(id))": the
\* error of the delete is dropped.
Discard(err) == ErrNil

\* RedisStore.Get, with the error derr of the round trip its DEL makes to
\* the server (nil: the round trip is made).
StoreGetDel(s, id, derr) ==
  LET fk == buildKey(s, id)
      got == RedisStoreGetResult(rdb, s, fk)
      stale == /\ ClientErr(s) = ErrNil /\ fk \in DOMAIN rdb
               /\ UnmarshalRecordErr(rdb[fk].val) = ErrNil
               /\ now > UnmarshalRecord(rdb[fk].val).ExpiresAt.wall
  IN /\ kind = "store"
     /\ derr # ErrNil => stale
     /\ rdb' = IF derr = ErrNil THEN RedisStoreGet(rdb, s, fk) ELSE rdb
     /\ ret' = Returned("Get", s, id,
                        IF derr = ErrNil THEN <<>> ELSE <<derr>>, got.val,
                        IF stale THEN Discard(derr) ELSE got.err)
     /\ UNCHANGED <<now, confVars, written, data, buf, gcVars, saved, held,
                    raceVars>>

StoreGet(s, id) == StoreGetDel(s, id, ErrNil)

\* RedisStore.Set, as the call op makes it, with what that call returns.
\* The history keeps the data, the time to live, the instant the record
\* expires at, and the instant the id was first written at since it last
\* held no record.
\* gerr is the error of the round trip of the Get that Set makes first
\* (nil: the round trip is made); what is returned to the caller is followed
\* in arg by the error of that Get, if it had one.
StoreSetPre(op, s, id, d, ttl, arg, val, gerr) ==
  LET fk == buildKey(s, id)
      pre == PreReadErr(rdb, s, fk, gerr)
      since == IF pre = ErrNil /\ fk \in DOMAIN written
                  /\ now <= written[fk].until
               THEN written[fk].since ELSE now
  IN /\ kind = "store"
     /\ gerr # ErrNil => ClientErr(s) = ErrNil
     /\ rdb' = IF gerr = ErrNil THEN RedisStoreSet(rdb, s, fk, id, d, ttl)
               ELSE RedisStoreSetPre(rdb, s, fk, id, d, ttl, gerr)
     /\ written' = IF RedisStoreSetErr(s) = ErrNil
                   THEN Put(written, fk,
                            [val |-> d, expiring |-> TRUE, until |-> now + ttl,
                             since |-> since, ttl |-> ttl])
                   ELSE written
     /\ ret' = Returned(op, s, id,
                        IF pre = ErrNil THEN arg ELSE arg \o <<pre>>,
                        IF RedisStoreSetErr(s) = ErrNil THEN val ELSE Absent,
                        RedisStoreSetErr(s))
     /\ UNCHANGED <<now, confVars, data, buf, gcVars, saved, held, raceVars>>

StoreSetAs(op, s, id, d, ttl, arg, val) ==
  StoreSetPre(op, s, id, d, ttl, arg, val, ErrNil)

StoreSet(s, id, d, ttl) == StoreSetAs("Set", s, id, d, ttl, <<>>, Absent)

\* RedisStore.Create: Set under the id generateSessionID returned.
StoreCreate(s, id, d, ttl) ==
  id # <<>> /\ StoreSetAs("Create", s, id, d, ttl, <<>>, Found(id))

StoreDelete(s, id) ==
  /\ kind = "store"
  /\ rdb' = RedisStoreDelete(rdb, s, buildKey(s, id))
  /\ written' = IF ClientErr(s) = ErrNil
                THEN Remove(written, buildKey(s, id)) ELSE written
  /\ ret' = Returned("Delete", s, id, <<>>, Absent, ClientErr(s))
  /\ UNCHANGED <<now, confVars, data, buf, gcVars, saved, held, raceVars>>

(***************************************************************************)
(* KVManager over the generic record store 1.                              *)
(***************************************************************************)
KVCreate(id, d, ttl) ==
  id # <<>> /\ StoreSetAs("KVCreate", 1, id, d, KVTTL(ttl), <<ttl>>, Found(id))

KVSet(id, d, ttl) == StoreSetAs("KVSet", 1, id, d, KVTTL(ttl), <<ttl>>, Absent)

KVRefresh(id, ttl) ==
  LET got == RedisStoreGetResult(rdb, 1, buildKey(1, id)) IN
  IF RefreshFinds(got)
  THEN StoreSetAs("KVRefresh", 1, id, RecordData(got.val), KVTTL(ttl),
                  <<ttl>>, Absent)
  ELSE /\ kind = "store"
       /\ rdb' = RedisStoreGet(rdb, 1, buildKey(1, id))
       /\ ret' = Returned("KVRefresh", 1, id, <<ttl>>, Absent, got.err)
       /\ UNCHANGED <<now, confVars, written, data, buf, gcVars, saved, held,
                      raceVars>>

(***************************************************************************)
(* The sweep goroutine of the in-process store (runGC), and Close.         *)
(***************************************************************************)
\* The ticker fires into its buffered channel; a tick on a full channel is
\* dropped.
TickerFire ==
  /\ gcTicker /\ asyncTimer /\ ~stopped /\ ~tickReady
  /\ tickReady' = TRUE
  /\ ret' = Idle
  /\ UNCHANGED <<now, confVars, written, data, buf, gcPc, stopped, done,
                 sweepsAfterClose, closes, saved, held, rdb, raceVars>>

\* runGC, "case <-s.gcTicker.C": the goroutine takes a tick: one waiting in
\* the channel, or one a running ticker hands over directly.
RunGCTick ==
  /\ gcPc = "select"
  /\ tickReady \/ (~asyncTimer /\ ~stopped)
  /\ gcPc' = "gc"
  /\ tickReady' = FALSE
  /\ ret' = Idle
  /\ UNCHANGED <<now, confVars, written, data, buf, stopped, done,
                 sweepsAfterClose, closes, saved, held, rdb, raceVars>>

\* runGC, "s.gc()": the pass itself, once it holds the lock.
RunGCSweep ==
  /\ gcPc = "gc"
  /\ data' = gc(data)
  /\ gcPc' = "select"
  /\ sweepsAfterClose' = IF done = "closed" THEN sweepsAfterClose + 1
                         ELSE sweepsAfterClose
  /\ ret' = Idle
  /\ UNCHANGED <<now, confVars, written, buf, tickReady, stopped, done,
                 closes, saved, held, rdb, raceVars>>

\* runGC, "case <-s.done: return".
RunGCDone ==
  /\ gcPc = "select" /\ done = "closed"
  /\ gcPc' = "exited"
  /\ ret' = Idle
  /\ UNCHANGED <<now, confVars, written, data, buf, tickReady, stopped,
                 done, sweepsAfterClose, closes, saved, held, rdb, raceVars>>

\* A Close that stops the ticker and leaves the done channel open.
MemCloseNoSignal(s) ==
  /\ stopped' = (gcTicker \/ stopped)
  /\ ret' = [op |-> "Close", store |-> s, key |-> <<>>, arg |-> <<>>,
             val |-> Absent, err |-> ErrNil, panic |-> FALSE]
  /\ UNCHANGED <<gcPc, tickReady, done, sweepsAfterClose, client, raceVars>>

\* MemoryStorage.Close: Stop the ticker, close(s.done).  Closing a closed
\* channel panics.  Stop leaves a tick that is already in a buffered channel.
MemClose(s) ==
  /\ stopped' = (gcTicker \/ stopped)
  /\ done' = "closed"
  /\ ret' = [Returned("Close", s, <<>>, <<>>, Absent, ErrNil)
               EXCEPT !.panic = (done = "closed")]
  /\ UNCHANGED <<gcPc, tickReady, sweepsAfterClose, client, raceVars>>

\* RedisStorage.Close: nil for a nil client, else the client's own Close,
\* which fails on a client that is closed.
RedisClose(s) ==
  /\ client' = IF client[s] = "nil" THEN client
               ELSE [client EXCEPT ![s] = "closed"]
  /\ ret' = Returned("Close", s, <<>>, <<>>, Absent,
                     IF client[s] = "closed" THEN ErrClientClosed ELSE ErrNil)
  /\ UNCHANGED <<gcPc, tickReady, stopped, done, sweepsAfterClose, raceVars>>

Close(s) ==
  /\ closes < MaxCloses
  /\ closes' = closes + 1
  /\ IF kind = "memory" THEN MemClose(s) ELSE RedisClose(s)
  /\ UNCHANGED <<now, cfg, config, keyPrefix, written, data, buf, saved, held,
                 rdb, raceVars>>

(***************************************************************************)
(* The session Manager over store 1.                                       *)
(***************************************************************************)
SessionIDs == {<<"s">>}
UserIDs == {<<>>, <<"u">>, <<"xff">>}
DataMaps ==
  {EmptyMap} \cup
  {"c" :> g : g \in {GoString(<<"v">>), GoInt(<<"1">>), GoFloat64(<<"1">>)}}
\* Email, authenticated flag, AMR and scopes of the callers under test.
Logins ==
  {[Email |-> <<>>, Authenticated |-> FALSE, AMR |-> <<>>, Scopes |-> <<>>],
   [Email |-> <<"e">>, Authenticated |-> TRUE,
    AMR |-> << <<"p">>, <<"o">> >>, Scopes |-> << <<"r">> >>],
   [Email |-> <<>>, Authenticated |-> TRUE,
    AMR |-> << <<"o">>, <<"p">> >>, Scopes |-> <<>>]}

\* The records a caller can hold at the current clock value: created now,
\* expiring later.
Sessions ==
  {[ID |-> id, UserID |-> u, Email |-> l.Email, Phone |-> <<>>,
    Authenticated |-> l.Authenticated, Data |-> d, CreatedAt |-> TimeNow,
    ExpiresAt |-> TimeAdd(TimeNow, x), LastAccessedAt |-> TimeNow,
    AMR |-> l.AMR, Scopes |-> l.Scopes] :
     id \in SessionIDs, u \in UserIDs, l \in Logins, d \in DataMaps,
     x \in 1..MaxTTL}

\* Manager.SaveSession, as the call op with argument arg makes it.
Save(r, op, arg) ==
  LET body == MarshalSession(r)
      fk == buildKey(1, r.ID)
      st == AfterSet(St, 1, r.ID, body, SaveTTL(r))
      stores == Stores(1, r.ID, body)
  IN /\ data' = st.data
     /\ rdb' = st.rdb
     /\ buf' = NoBuf
     /\ written' = IF stores
                   THEN Put(written, fk, [val |-> body, expiring |-> TRUE,
                                          until |-> now + SaveTTL(r)])
                   ELSE written
     /\ saved' = IF stores THEN Put(saved, fk, r) ELSE saved
     /\ ret' = Returned(op, 1, r.ID, arg, Absent, SetErr(1, r.ID, body))
     /\ UNCHANGED <<now, confVars, gcVars, raceVars>>

\* Manager.SaveSession
SaveSession(r) == Save(r, "SaveSession", <<r>>) /\ UNCHANGED held

\* LoadSession, "return nil, nil" where json.Unmarshal has failed.
LoadFailedSilently(id, err) ==
  Returned("LoadSession", 1, id, <<>>, Absent, ErrNil)

\* Manager.LoadSession, "return nil, fmt.Errorf(...)" after json.Unmarshal.
LoadFailed(id, err) == Returned("LoadSession", 1, id, <<>>, Absent, err)

\* A wrapping that loses the error it wraps.
ErrorfNil(err) == ErrNil

\* LoadSession, fmt.Errorf("failed to get session: %w", err): an error that
\* wraps the storage's; the model keeps the error it wraps.
Errorf(err) == err

\* Manager.LoadSession, with the error derr of the round trip its Delete
\* makes to the server (nil: the round trip is made).
LoadSessionDel(id, derr) ==
  LET got == GetResult(St, 1, id)
      st1 == AfterGet(St, 1, id)
      read == got.err = ErrNil /\ got.val.found
      uerr == IF read THEN UnmarshalSessionErr(got.val.data) ELSE ErrNil
      session == UnmarshalSession(got.val.data)
      expired == read /\ uerr = ErrNil /\ IsExpired(session)
      delerr == IF derr # ErrNil THEN derr ELSE DeleteErr(1)
      st2 == IF expired /\ derr = ErrNil THEN AfterDelete(st1, 1, id) ELSE st1
      arg == IF derr = ErrNil THEN <<>> ELSE <<derr>>
  IN /\ derr # ErrNil => expired /\ kind = "redis"
     /\ data' = st2.data
     /\ rdb' = st2.rdb
     /\ written' = IF expired /\ delerr = ErrNil
                   THEN Remove(written, buildKey(1, id)) ELSE written
     /\ ret' = IF got.err # ErrNil
               THEN Returned("LoadSession", 1, id, <<>>, Absent,
                             Errorf(got.err))
               ELSE IF ~got.val.found
               THEN Returned("LoadSession", 1, id, <<>>, Absent, ErrNil)
               ELSE IF uerr # ErrNil THEN LoadFailed(id, uerr)
               ELSE IF expired
               THEN Returned("LoadSession", 1, id, arg, Absent,
                             Discard(delerr))
               ELSE Returned("LoadSession", 1, id, <<>>, Found(session), ErrNil)
     /\ UNCHANGED <<now, confVars, buf, gcVars, saved, held, raceVars>>

\* Manager.LoadSession
LoadSession(id) == LoadSessionDel(id, ErrNil)

\* Manager.CreateSession: the caller holds a new record.
CreateSession(id) ==
  /\ held' = <<NewSessionData(id, ConfigExpiration)>>
  /\ ret' = [Idle EXCEPT !.op = "CreateSession", !.key = id]
  /\ UNCHANGED <<now, confVars, written, data, buf, gcVars, saved, rdb,
                 raceVars>>

\* The caller assigns ExpiresAt of the record it holds: now + d.
SetExpiresAt(d) ==
  /\ held # <<>>
  /\ held' = <<[held[1] EXCEPT !.ExpiresAt = TimeAdd(TimeNow, d)]>>
  /\ ret' = [Idle EXCEPT !.op = "SetExpiresAt"]
  /\ UNCHANGED <<now, confVars, written, data, buf, gcVars, saved, rdb,
                 raceVars>>

\* SessionData.AddAMR on the record the caller holds.
AddAMR(method) ==
  /\ held # <<>>
  /\ held' = <<[held[1] EXCEPT !.AMR = AppendUnique(@, method)]>>
  /\ ret' = [Idle EXCEPT !.op = "AddAMR", !.arg = method]
  /\ UNCHANGED <<now, confVars, written, data, buf, gcVars, saved, rdb,
                 raceVars>>

\* SessionData.AddScope on the record the caller holds.
AddScope(scope) ==
  /\ held # <<>>
  /\ held' = <<[held[1] EXCEPT !.Scopes = AppendUnique(@, scope)]>>
  /\ ret' = [Idle EXCEPT !.op = "AddScope", !.arg = scope]
  /\ UNCHANGED <<now, confVars, written, data, buf, gcVars, saved, rdb,
                 raceVars>>

\* The caller saves the record it holds.
SaveHeld == held # <<>> /\ SaveSession(held[1])

\* Manager.TouchSession on the record the caller holds: Touch, a new
\* ExpiresAt, SaveSession.
TouchSession ==
  /\ held # <<>>
  /\ LET r == [Touch(held[1]) EXCEPT
                 !.ExpiresAt = TimeAdd(TimeNow, ConfigExpiration)]
     IN held' = <<r>> /\ Save(r, "TouchSession", held)

\* Payloads no SessionData can be read from, as another writer of the
\* backend leaves them: two JSON values in one text, an id that is a number,
\* an expires_at that is no time.
Malformed ==
  LET doc == [id |-> JString(<<"s">>), authenticated |-> JBool(FALSE),
              created_at |-> JString(<<"T", "1">>),
              expires_at |-> JString(<<"T", "1">>),
              last_accessed_at |-> JString(<<"T", "1">>)]
  IN {<<doc, doc>>,
      <<[doc EXCEPT !.id = JNumber(<<"1">>)]>>,
      <<[doc EXCEPT !.expires_at = JString(<<"x">>)]>>}

(***************************************************************************)
(* Specifications.                                                         *)
(***************************************************************************)
\* The storage contract under sequential callers, with the sweep running.
Init == \E c \in MemoryConfigs \cup RedisConfigs \cup StoreConfigs : NewStorage(c)

Next ==
  \/ \E s \in StoreIds, key \in KeysOf : Get(s, key)
  \/ \E s \in StoreIds, key \in KeysOf, val \in Payloads, exp \in TTLs :
       Set(s, key, val, exp, FALSE)
  \/ \E s \in StoreIds, key \in KeysOf : Delete(s, key)
  \/ \E s \in StoreIds : Reset(s)
  \/ \E s \in StoreIds, id \in RedisKeys : StoreGet(s, id)
  \/ \E s \in StoreIds, id \in RedisKeys, d \in {EmptyMap}, ttl \in TTLs :
       StoreSet(s, id, d, ttl)
  \/ \E s \in StoreIds, id \in RedisKeys : StoreDelete(s, id)
  \/ Tick
  \/ RunGCTick
  \/ RunGCSweep

Spec == Init /\ [][Next]_vars

\* A caller that keeps and overwrites the buffers it passes to Set.
InitAlias == \E c \in MemoryConfigs : NewStorage(c)

NextAlias ==
  \/ \E key \in Keys \ {<<>>}, val \in Payloads \ {<<>>}, exp \in TTLs :
       Set(1, key, val, exp, TRUE)
  \/ \E key \in Keys \ {<<>>} : Get(1, key)
  \/ \E i \in 1..1, b \in Bytes : MutateBuf(i, b)
  \/ Tick
  \/ RunGCTick
  \/ RunGCSweep

SpecAlias == InitAlias /\ [][NextAlias]_vars

\* The constructors on every configured prefix.
InitPrefix == \E c \in PrefixConfigs : Unbuilt(c)

NextPrefix == New

SpecPrefix == InitPrefix /\ [][NextPrefix]_vars

\* Close, against the sweep goroutine and a caller that stores entries.
InitClose == \E c \in CloseConfigs : NewStorage(c)

NextClose ==
  \/ \E s \in StoreIds : Close(s)
  \/ \E exp \in TTLs : Set(1, <<"k">>, <<1>>, exp, FALSE)
  \/ Tick
  \/ TickerFire
  \/ RunGCTick
  \/ RunGCSweep
  \/ RunGCDone

\* The Go scheduler runs a goroutine that can run: the sweep goroutine
\* finishes a pass it began and takes the exit a closed channel offers.
SpecClose ==
  /\ InitClose
  /\ [][NextClose]_vars
  /\ WF_vars(RunGCSweep)
  /\ WF_vars(RunGCDone)

\* The Manager over an in-process store.
InitSession == \E c \in MemoryConfigs : NewStorage(c)

NextSession ==
  \/ \E r \in Sessions : SaveSession(r)
  \/ \E id \in SessionIDs : LoadSession(id)
  \/ Tick
  \/ RunGCTick
  \/ RunGCSweep

SpecSession == InitSession /\ [][NextSession]_vars

\* A caller that adds authentication methods and scopes to a new record.
Methods == {<<"p">>, <<"o">>, <<"t">>}
Scopes == {<<"r">>, <<"w">>}

InitRecord == NewStorage(Config("memory", <<<<"a">>>>, <<"nil">>, 0, FALSE))

NextRecord ==
  \/ \E id \in SessionIDs : CreateSession(id)
  \/ \E method \in Methods : AddAMR(method)
  \/ \E scope \in Scopes : AddScope(scope)

SpecRecord == InitRecord /\ [][NextRecord]_vars

\* The generic record store and its KVManager, with callers of both.
StoreData == {"c" :> GoString(<<"v">>), "c" :> GoInt(<<"1">>)}
KVTTLs == -1..MaxTTL
WrittenIDs == {<<"k">>}

InitStore == NewStorage(Config("store", <<<<"a">>>>, <<"open">>, 0, FALSE))

NextStore ==
  \/ \E id \in RedisKeys : StoreGet(1, id)
  \/ \E id \in WrittenIDs, d \in StoreData, ttl \in TTLs :
       StoreSet(1, id, d, ttl)
  \/ \E id \in WrittenIDs, d \in StoreData, ttl \in TTLs :
       StoreCreate(1, id, d, ttl)
  \/ \E id \in RedisKeys : StoreDelete(1, id)
  \/ \E id \in WrittenIDs, d \in StoreData, ttl \in KVTTLs :
       KVCreate(id, d, ttl)
  \/ \E id \in WrittenIDs, d \in StoreData, ttl \in KVTTLs :
       KVSet(id, d, ttl)
  \/ \E id \in RedisKeys, ttl \in KVTTLs : KVRefresh(id, ttl)
  \/ Tick

SpecStore == InitStore /\ [][NextStore]_vars

\* One networked store on a server of its own.
RedisConfig == Config("redis", <<<<"a">>>>, <<"open">>, 0, FALSE)

\* The Manager and a caller that creates, changes, saves, touches and loads
\* a record, next to a writer that goes to the backend directly.
InitManager == \E c \in MemoryConfigs \cup {RedisConfig} : NewStorage(c)

NextManager ==
  \/ \E id \in SessionIDs : CreateSession(id)
  \/ \E d \in {-1, MaxTTL + 1} : SetExpiresAt(d)
  \/ SaveHeld
  \/ TouchSession
  \/ \E id \in SessionIDs : LoadSession(id)
  \/ \E id \in SessionIDs, val \in Malformed : Set(1, id, val, 0, FALSE)
  \/ Tick
  \/ RunGCTick
  \/ RunGCSweep

SpecManager == InitManager /\ [][NextManager]_vars

(***************************************************************************)
(* The factory: NewStorage, MustNewStorage, NewRedisStorageFromConfig.     *)
(***************************************************************************)
ErrUnknownType == "unknown storage type"
ErrCreateClient == "failed to create Redis client"
ErrConnect == "failed to connect to Redis"

\* The store a constructor hands back, by its type.
Built(type) == Found(<<type>>)

\* The values of StorageConfig.Type under test: the two constants, the zero
\* value, and two strings that are neither constant.
StorageTypes == {"memory", "redis", "", "Memory", "file"}

\* How the dial of a client to the configured address goes: the client is
\* not created (rediskitclient.NewClient fails), the server does not answer
\* the Ping, or it answers.
Dials == {"no client", "no reply", "ok"}

\* A constructor that returns after a failed Ping without closing the client.
NewRedisStorageFromConfigLeaky(dial) ==
  IF dial = "no client"
  THEN [store |-> Absent, err |-> ErrCreateClient, client |-> "nil"]
  ELSE IF dial = "no reply"
  THEN [store |-> Absent, err |-> ErrConnect, client |-> "open"]
  ELSE [store |-> Built("redis"), err |-> ErrNil, client |-> "open"]

\* NewRedisStorageFromConfig: what it returns, and the state of the client
\* it created ("nil": none was created).
NewRedisStorageFromConfig(dial) ==
  IF dial = "no client"
  THEN [store |-> Absent, err |-> ErrCreateClient, client |-> "nil"]
  ELSE IF dial = "no reply"
  THEN [store |-> Absent, err |-> ErrConnect, client |-> "closed"]
  ELSE [store |-> Built("redis"), err |-> ErrNil, client |-> "open"]

\* A factory that falls back to the in-process store for a type it does not
\* know.
NewStorageFallback(c, dial) ==
  IF c.Type = "redis"
  THEN IF c.RedisClient[1] # "nil"
       THEN [store |-> Built("redis"), err |-> ErrNil,
             client |-> c.RedisClient[1]]
       ELSE NewRedisStorageFromConfig(dial)
  ELSE [store |-> Built("memory"), err |-> ErrNil, client |-> c.RedisClient[1]]

\* NewStorage: the switch on cfg.Type.
NewStorageResult(c, dial) ==
  IF c.Type = "memory"
  THEN [store |-> Built("memory"), err |-> ErrNil, client |-> c.RedisClient[1]]
  ELSE IF c.Type = "redis"
  THEN IF c.RedisClient[1] # "nil"
       THEN [store |-> Built("redis"), err |-> ErrNil,
             client |-> c.RedisClient[1]]
       ELSE NewRedisStorageFromConfig(dial)
  ELSE [store |-> Absent, err |-> ErrUnknownType, client |-> c.RedisClient[1]]

\* A call of the factory, as NewStorage (must = FALSE) or as MustNewStorage,
\* which panics on the error and returns the store alone otherwise.
Construct(op, dial, must) ==
  LET r == NewStorageResult(cfg, dial) IN
  /\ keyPrefix = <<>> /\ ret.op = "none"
  /\ client' = <<r.client>>
  /\ keyPrefix' = IF r.store.found
                  THEN <<NewPrefix(r.store.data[1], cfg.KeyPrefix[1])>>
                  ELSE <<>>
  /\ gcPc' = IF r.store = Built("memory") /\ cfg.MemoryGCInterval > 0
             THEN "select" ELSE "none"
  /\ ret' = [op |-> op, store |-> 1, key |-> <<>>, arg |-> <<dial>>,
             val |-> IF must /\ r.err # ErrNil THEN Absent ELSE r.store,
             err |-> IF must THEN ErrNil ELSE r.err,
             panic |-> must /\ r.err # ErrNil]
  /\ UNCHANGED <<now, cfg, config, written, data, buf, tickReady, stopped, done,
                 sweepsAfterClose, closes, saved, held, rdb, raceVars>>

NewStorageCall(dial) == Construct("NewStorage", dial, FALSE)

MustNewStorage(dial) == Construct("MustNewStorage", dial, TRUE)

\* The factory on every type, with and without a client of the caller's, and
\* a caller that uses and closes the store it got.
FactoryConfigs ==
  {Config(type, <<p>>, <<c>>, g, FALSE) :
     type \in StorageTypes, p \in {<<>>, <<"a">>},
     c \in {"nil", "open", "closed"}, g \in {0, 1}}

InitFactory == \E c \in FactoryConfigs : Unbuilt(c)

NextFactory ==
  \/ \E dial \in Dials : NewStorageCall(dial)
  \/ \E dial \in Dials : MustNewStorage(dial)
  \/ \E s \in StoreIds, key \in RedisKeys : Get(s, key)
  \/ \E s \in StoreIds, key \in RedisKeys, val \in Payloads, exp \in TTLs :
       Set(s, key, val, exp, FALSE)
  \/ \E s \in StoreIds : Close(s)
  \/ Tick

SpecFactory == InitFactory /\ [][NextFactory]_vars

(***************************************************************************)
(* RedisStorage.Exists, GetTTL, Expire and RedisStore.Exists.              *)
(***************************************************************************)
\* EXISTS key, as the bool both Exists methods make of the count.
ExistsResult(db, s, fk) ==
  IF ClientErr(s) # ErrNil THEN [val |-> Found(<<FALSE>>), err |-> ClientErr(s)]
  ELSE [val |-> Found(<<fk \in DOMAIN db>>), err |-> ErrNil]

\* RedisStorage.GetTTL: -2 for a key the server does not hold, -1 for a key
\* without an expiration, else the time the key has left.
GetTTLResult(db, s, fk) ==
  IF ClientErr(s) # ErrNil THEN [val |-> Found(<<0>>), err |-> ClientErr(s)]
  ELSE IF fk \notin DOMAIN db THEN [val |-> Found(<<-2>>), err |-> ErrNil]
  ELSE IF db[fk].expireAt = ZeroTime THEN [val |-> Found(<<-1>>), err |-> ErrNil]
  ELSE [val |-> Found(<<db[fk].expireAt - now>>), err |-> ErrNil]

\* RedisStorage.Expire: the keyspace after it.  The server deletes a key
\* that is given a timeout that is not positive.
RedisExpire(db, s, fk, exp) ==
  IF ClientErr(s) # ErrNil \/ fk \notin DOMAIN db THEN db
  ELSE IF exp <= 0 THEN Remove(db, fk)
  ELSE [db EXCEPT ![fk].expireAt = now + exp]

Exists(s, key) ==
  /\ kind = "redis"
  /\ ret' = Returned("Exists", s, key, <<>>,
                     ExistsResult(rdb, s, buildKey(s, key)).val,
                     ExistsResult(rdb, s, buildKey(s, key)).err)
  /\ UNCHANGED <<now, confVars, written, data, buf, gcVars, saved, held, rdb,
                 raceVars>>

GetTTL(s, key) ==
  /\ kind = "redis"
  /\ ret' = Returned("GetTTL", s, key, <<>>,
                     GetTTLResult(rdb, s, buildKey(s, key)).val,
                     GetTTLResult(rdb, s, buildKey(s, key)).err)
  /\ UNCHANGED <<now, confVars, written, data, buf, gcVars, saved, held, rdb,
                 raceVars>>

Expire(s, key, exp) ==
  LET fk == buildKey(s, key) IN
  /\ kind = "redis"
  /\ rdb' = RedisExpire(rdb, s, fk, exp)
  /\ written' = IF ClientErr(s) # ErrNil \/ fk \notin DOMAIN written
                   \/ fk \notin DOMAIN rdb
                THEN written
                ELSE IF exp <= 0 THEN Remove(written, fk)
                ELSE [written EXCEPT ![fk].expiring = TRUE,
                                     ![fk].until = now + exp]
  /\ ret' = Returned("Expire", s, key, <<exp>>, Absent, ClientErr(s))
  /\ UNCHANGED <<now, confVars, data, buf, gcVars, saved, held, raceVars>>

StoreExists(s, id) ==
  /\ kind = "store"
  /\ ret' = Returned("Exists", s, id, <<>>,
                     ExistsResult(rdb, s, buildKey(s, id)).val,
                     ExistsResult(rdb, s, buildKey(s, id)).err)
  /\ UNCHANGED <<now, confVars, written, data, buf, gcVars, saved, held, rdb,
                 raceVars>>

\* Two stores on one server; the first was built without a client.
NilConfigs ==
  {Config(type, << <<"a">>, <<"b">> >>, <<"nil", "open">>, 0, FALSE) :
     type \in {"redis", "store"}}

InitNil == \E c \in NilConfigs : NewStorage(c)

NextNil ==
  \/ \E key \in RedisKeys : Get(1, key)
  \/ \E key \in RedisKeys, val \in Payloads, exp \in TTLs :
       Set(1, key, val, exp, FALSE)
  \/ \E key \in RedisKeys : Delete(1, key)
  \/ Reset(1)
  \/ \E s \in StoreIds : \E key \in IF s = 1 THEN RedisKeys ELSE WrittenIDs :
       Exists(s, key)
  \/ \E s \in StoreIds : \E key \in IF s = 1 THEN RedisKeys ELSE WrittenIDs :
       GetTTL(s, key)
  \/ \E s \in StoreIds : \E key \in IF s = 1 THEN RedisKeys ELSE WrittenIDs :
       \E exp \in TTLs : Expire(s, key, exp)
  \/ Close(1)
  \/ \E id \in RedisKeys : StoreGet(1, id)
  \/ \E id \in RedisKeys, d \in StoreData, ttl \in TTLs : StoreSet(1, id, d, ttl)
  \/ \E id \in WrittenIDs, d \in StoreData, ttl \in TTLs :
       StoreCreate(1, id, d, ttl)
  \/ \E id \in RedisKeys : StoreDelete(1, id)
  \/ \E s \in StoreIds : \E id \in IF s = 1 THEN RedisKeys ELSE WrittenIDs :
       StoreExists(s, id)
  \* the caller of the store that has its client
  \/ \E exp \in TTLs : Set(2, <<"k">>, <<1>>, exp, FALSE)
  \/ \E ttl \in TTLs : StoreSet(2, <<"k">>, "c" :> GoString(<<"v">>), ttl)
  \/ Tick

SpecNil == InitNil /\ [][NextNil]_vars

(***************************************************************************)
(* Callers of the session Config.                                          *)
(***************************************************************************)
\* The setters WithExpiration, WithCookieName, WithCookiePath, WithSecure and
\* WithSameSite: the caller goes on with the copy they return.
With(field, v) ==
  /\ config[field] # v
  /\ config' = [config EXCEPT ![field] = v]
  /\ ret' = [Idle EXCEPT !.op = "With"]
  /\ UNCHANGED <<now, cfg, keyPrefix, client, written, data, buf, gcVars,
                 saved, held, rdb, raceVars>>

Validate ==
  /\ ret' = Returned("Validate", 1, <<>>, <<>>, Absent, ValidateErr(config))
  /\ UNCHANGED <<now, confVars, written, data, buf, gcVars, saved, held, rdb,
                 raceVars>>

CreateCookie(sessionID) ==
  /\ ret' = Returned("CreateCookie", 1, sessionID, <<>>,
                     Found(<<[Name |-> config.CookieName,
                              Value |-> sessionID,
                              Expires |-> TimeAdd(TimeNow, config.Expiration),
                              Path |-> config.CookiePath,
                              Domain |-> config.CookieDomain,
                              Secure |-> CookieSecure(config),
                              HTTPOnly |-> config.HTTPOnly,
                              SameSite |-> CookieSameSite(config)]>>),
                     ErrNil)
  /\ UNCHANGED <<now, confVars, written, data, buf, gcVars, saved, held, rdb,
                 raceVars>>

FiberSessionConfig ==
  /\ ret' = Returned("FiberSessionConfig", 1, <<>>, <<>>,
                     Found(<<[Expiration |-> config.Expiration,
                              KeyLookup |-> <<"cookie:">> \o config.CookieName,
                              CookieDomain |-> config.CookieDomain,
                              CookiePath |-> config.CookiePath,
                              CookieSecure |-> CookieSecure(config),
                              CookieHTTPOnly |-> config.HTTPOnly,
                              CookieSameSite |-> CookieSameSite(config)]>>),
                     ErrNil)
  /\ UNCHANGED <<now, confVars, written, data, buf, gcVars, saved, held, rdb,
                 raceVars>>

\* The settings under test.  Same-site: the four recognized values in other
\* cases and with white space around them, the empty string, white space
\* alone, and strings that are none of the four.
CookieNames == {<<>>, <<"s">>}
CookiePaths == {<<>>, <<"/">>}
Expirations == {-1, 0, ConfigExpiration}
SameSites ==
  {<<>>, <<" ">>,
   SameSiteLax, ToLower(SameSiteLax), <<" ", "L", "A", "X", " ">>,
   SameSiteStrict, <<"s", "t", "r", "i", "c", "t", "\t">>,
   SameSiteNone, ToLower(SameSiteNone), <<" ", "N", "O", "N", "E">>,
   SameSiteDisabled, ToLower(SameSiteDisabled),
   <<"n", "o", " ", "n", "e">>, <<"N", "o", "n", "e", "!">>, <<"x">>}

\* A caller that starts from the default or the zero Config, changes it with
\* the setters, validates it and builds cookies from it.
InitConfig ==
  \E sc \in {DefaultConfig, ZeroConfig} :
    NewManager(Config("memory", <<<<"a">>>>, <<"nil">>, 0, FALSE), sc)

NextConfig ==
  \/ \E v \in CookieNames : With("CookieName", v)
  \/ \E v \in CookiePaths : With("CookiePath", v)
  \/ \E v \in Expirations : With("Expiration", v)
  \/ \E v \in BOOLEAN : With("Secure", v)
  \/ \E v \in SameSites : With("SameSite", v)
  \/ Validate
  \/ \E id \in SessionIDs : CreateCookie(id)
  \/ FiberSessionConfig

SpecConfig == InitConfig /\ [][NextConfig]_vars

(***************************************************************************)
(* Callers of the in-process store that run next to each other.  Set and   *)
(* Get each take the lock once they have done part of their work: a call   *)
(* is two steps, and the steps of other callers, of the clock and of the   *)
(* sweep fall between them.                                                *)
(***************************************************************************)
\* Some caller is in the middle of a call.
InCall == \E q \in Procs : calls[q].pc # "idle"

\* The history once a call begins that is to write e: it joins the calls
\* that overlap, or is the first of a new group of them.
Joined(e, before) ==
  IF InCall
  THEN [race EXCEPT !.begun = @ + 1, !.size = @ + 1, !.wrote = @ \cup {e}]
  ELSE [begun |-> race.begun + 1, size |-> 1, wrote |-> {e}, prior |-> before]

\* MemoryStorage.Set, up to "s.mu.Lock()": the check of the arguments, and
\* the entry, built with the clock as it is now.
SetBuild(p, key, val, exp) ==
  LET fk == buildKey(1, key)
      entry == [data |-> EntryData(val).data, shared |-> EntryData(val).shared,
                expiresAt |-> EntryExpiresAt(exp)]
  IN /\ kind = "memory" /\ calls[p].pc = "idle"
     /\ race.begun < MaxSets
     /\ IF key = <<>> \/ Len(val) = 0
        THEN /\ ret' = Returned("Set", 1, key, val, Absent, ErrNil)
             /\ UNCHANGED raceVars
        ELSE /\ calls' = [calls EXCEPT ![p] = [pc |-> "store", key |-> key,
                                              entry |-> <<entry>>]]
             /\ race' = Joined(entry, IF fk \in DOMAIN data
                                      THEN <<data[fk]>> ELSE <<>>)
             /\ ret' = [Idle EXCEPT !.op = "SetBuild"]
     /\ UNCHANGED <<now, confVars, written, data, buf, gcVars, saved, held,
                    rdb>>

\* MemoryStorage.Set, "s.data[fullKey] = entry" under the lock, and return.
SetStore(p) ==
  LET fk == buildKey(1, calls[p].key)
      entry == calls[p].entry[1]
  IN /\ calls[p].pc = "store"
     /\ data' = Put(Unshare(data), fk, entry)
     /\ written' = Put(written, fk,
                       [val |-> entry.data,
                        expiring |-> entry.expiresAt # ZeroTime,
                        until |-> entry.expiresAt])
     /\ calls' = [calls EXCEPT ![p] = NoCalls[p]]
     /\ ret' = Returned("Set", 1, calls[p].key, entry.data, Absent, ErrNil)
     /\ UNCHANGED <<now, confVars, buf, gcVars, saved, held, rdb, race>>

\* MemoryStorage.Get, "entry, ok := s.data[fullKey]" under the read lock.
GetRead(p, key) ==
  LET fk == buildKey(1, key) IN
  /\ kind = "memory" /\ calls[p].pc = "idle"
  /\ calls' = [calls EXCEPT ![p] =
                 [pc |-> "read", key |-> key,
                  entry |-> IF fk \in DOMAIN data THEN <<data[fk]>> ELSE <<>>]]
  /\ ret' = [Idle EXCEPT !.op = "GetRead"]
  /\ UNCHANGED <<now, confVars, written, data, buf, gcVars, saved, held, rdb,
                 race>>

\* MemoryStorage.Get, after the read lock is released: nil for no entry; for
\* an entry that has expired, "delete(s.data, fullKey)" under the lock and
\* nil; else the entry's bytes.
GetReturn(p) ==
  LET fk == buildKey(1, calls[p].key)
      entry == calls[p].entry
  IN /\ calls[p].pc = "read"
     /\ data' = IF entry # <<>> /\ isExpired(entry[1])
                THEN MemDelete(data, fk) ELSE data
     /\ calls' = [calls EXCEPT ![p] = NoCalls[p]]
     /\ ret' = Returned("Get", 1, calls[p].key, <<>>,
                        IF entry = <<>> \/ isExpired(entry[1]) THEN Absent
                        ELSE Found(entry[1].data),
                        ErrNil)
     /\ UNCHANGED <<now, confVars, written, buf, gcVars, saved, held, rdb,
                    race>>

\* Two callers that Set one key and one that Gets it, with the sweep.
Setters == {1, 2}
Getters == {3}
RacedKeys == {<<"k">>}

InitRace == \E c \in MemoryConfigs : NewStorage(c)

NextRace ==
  \/ \E p \in Setters, key \in RacedKeys, exp \in TTLs :
       \E val \in {<<>>, <<p>>} : SetBuild(p, key, val, exp)
  \/ \E p \in Setters : SetStore(p)
  \/ \E p \in Getters, key \in RacedKeys : GetRead(p, key)
  \/ \E p \in Getters : GetReturn(p)
  \/ Tick
  \/ RunGCTick
  \/ RunGCSweep

SpecRace == InitRace /\ [][NextRace]_vars

(***************************************************************************)
(* Callers of the generic record store that run next to each other.        *)
(* RedisStore.Set sends up to three commands to the server: the GET of its *)
(* Get, the DEL of its Get for a record past its ExpiresAt, and its SET.   *)
(* A call is three steps, one for each.                                    *)
(***************************************************************************)
\* A Set that leaves CreatedAt at its zero value when it finds no record.
ChosenCreatedAtUnset(existing, t) ==
  IF existing # <<>> THEN existing[1].CreatedAt
  ELSE [wall |-> ZeroTime, mono |-> FALSE]

\* RedisStore.Set, "createdAt := now" and "if existing, _ := s.Get(ctx, id);
\* existing != nil { createdAt = existing.CreatedAt }".
ChosenCreatedAt(existing, t) ==
  IF existing # <<>> THEN existing[1].CreatedAt ELSE t

\* RedisStore.Set, up to the GET of its Get: the check of the client,
\* "now := time.Now()", and what the server holds under the key.
StoreSetBegin(p, id, d, ttl) ==
  LET fk == buildKey(1, id)
      got == IF fk \in DOMAIN rdb THEN <<rdb[fk].val>> ELSE <<>>
  IN /\ kind = "store" /\ calls[p].pc = "idle"
     /\ race.begun < MaxSets
     /\ IF ClientErr(1) # ErrNil
        THEN /\ ret' = Returned("Set", 1, id, <<>>, Absent, ClientErr(1))
             /\ UNCHANGED raceVars
        ELSE /\ calls' = [calls EXCEPT ![p] =
                            [pc |-> "check", key |-> id,
                             entry |-> <<[now |-> TimeNow, data |-> d,
                                          ttl |-> ttl, got |-> got]>>]]
             /\ race' = Joined([data |-> MarshalMap(d),
                                expiresAt |-> TimeAdd(TimeNow, ttl).wall,
                                now |-> now, ttl |-> ttl],
                               IF got = <<>> THEN <<>>
                               ELSE <<UnmarshalRecord(got[1])>>)
             /\ ret' = [Idle EXCEPT !.op = "StoreSetBegin"]
     /\ UNCHANGED <<now, confVars, written, data, buf, gcVars, saved, held,
                    rdb>>

\* RedisStore.Set, the rest of its Get: a record past its ExpiresAt is
\* deleted and counts as none; then the choice of CreatedAt.
StoreSetCheck(p) ==
  LET fk == buildKey(1, calls[p].key)
      call == calls[p].entry[1]
      stale == call.got # <<>>
               /\ now > UnmarshalRecord(call.got[1]).ExpiresAt.wall
      existing == IF call.got = <<>> \/ stale THEN <<>>
                  ELSE <<UnmarshalRecord(call.got[1])>>
  IN /\ calls[p].pc = "check"
     /\ rdb' = IF stale THEN Remove(rdb, fk) ELSE rdb
     /\ calls' = [calls EXCEPT ![p].pc = "write",
                               ![p].entry =
                                 <<[now |-> call.now, data |-> call.data,
                                    ttl |-> call.ttl,
                                    got |-> <<ChosenCreatedAt(existing,
                                                              call.now)>>]>>]
     /\ ret' = [Idle EXCEPT !.op = "StoreSetCheck"]
     /\ UNCHANGED <<now, confVars, written, data, buf, gcVars, saved, held,
                    race>>

\* RedisStore.Set, the record, its encoding and the SET; then the return.
StoreSetWrite(p) ==
  LET fk == buildKey(1, calls[p].key)
      call == calls[p].entry[1]
      rec == [ID |-> calls[p].key, Data |-> call.data,
              CreatedAt |-> call.got[1],
              ExpiresAt |-> TimeAdd(call.now, call.ttl)]
  IN /\ calls[p].pc = "write"
     /\ rdb' = ServerSet(rdb, fk, MarshalRecord(rec), call.ttl)
     /\ calls' = [calls EXCEPT ![p] = NoCalls[p]]
     /\ ret' = Returned("Set", 1, calls[p].key, <<>>, Absent, ErrNil)
     /\ UNCHANGED <<now, confVars, written, data, buf, gcVars, saved, held,
                    race>>

\* Two callers that Set the record of one id, each with data of its own.
InitRaceStore == InitStore

NextRaceStore ==
  \/ \E p \in Setters, id \in WrittenIDs, ttl \in TTLs :
       StoreSetBegin(p, id, "c" :> GoInt(<<ToString(p)>>), ttl)
  \/ \E p \in Setters : StoreSetCheck(p)
  \/ \E p \in Setters : StoreSetWrite(p)
  \/ Tick

SpecRaceStore == InitRaceStore /\ [][NextRaceStore]_vars

(***************************************************************************)
(* Both backends side by side: store 1 is a MemoryStorage, store 2 a       *)
(* RedisStorage on its own server, built with the same prefix; each call   *)
(* is made on both, at the same clock value.                               *)
(***************************************************************************)
\* NewMemoryStorage(prefix, gcInterval) and NewRedisStorage(client, prefix).
NewPair ==
  /\ kind = "pair" /\ keyPrefix = <<>>
  /\ keyPrefix' = <<NewMemoryStoragePrefix(cfg.KeyPrefix[1]),
                    NewRedisStoragePrefix(cfg.KeyPrefix[2])>>
  /\ gcPc' = IF cfg.MemoryGCInterval > 0 THEN "select" ELSE "none"
  /\ ret' = [Idle EXCEPT !.op = "New"]
  /\ UNCHANGED <<now, cfg, config, client, written, data, buf, tickReady,
                 stopped, done, sweepsAfterClose, closes, saved, held, rdb,
                 raceVars>>

PairBuilt == kind = "pair" /\ keyPrefix # <<>>

\* Get on both: val is what the in-process store returns, arg and err what
\* the networked store returns.
PairGet(key) ==
  /\ PairBuilt
  /\ data' = MemGet(data, buildKey(1, key))
  /\ ret' = Returned("Get", 1, key,
                     <<RedisGetResult(rdb, 2, buildKey(2, key)).val>>,
                     MemGetResult(data, buildKey(1, key)),
                     RedisGetResult(rdb, 2, buildKey(2, key)).err)
  /\ UNCHANGED <<now, confVars, written, buf, gcVars, saved, held, rdb,
                 raceVars>>

PairSet(key, val, exp) ==
  /\ PairBuilt
  /\ data' = MemSet(data, buildKey(1, key), key, val, exp)
  /\ rdb' = RedisSet(rdb, 2, buildKey(2, key), key, val, exp)
  /\ ret' = Returned("Set", 1, key, val, Absent, RedisSetErr(2, key, val))
  /\ UNCHANGED <<now, confVars, written, buf, gcVars, saved, held, raceVars>>

PairDelete(key) ==
  /\ PairBuilt
  /\ data' = MemDelete(data, buildKey(1, key))
  /\ rdb' = RedisDelete(rdb, 2, buildKey(2, key))
  /\ ret' = Returned("Delete", 1, key, <<>>, Absent, ClientErr(2))
  /\ UNCHANGED <<now, confVars, written, buf, gcVars, saved, held, raceVars>>

PairReset ==
  /\ PairBuilt
  /\ data' = MemReset(data)
  /\ rdb' = RedisReset(rdb, 2)
  /\ ret' = Returned("Reset", 1, <<>>, <<>>, Absent, ClientErr(2))
  /\ UNCHANGED <<now, confVars, written, buf, gcVars, saved, held, raceVars>>

\* Prefixes "session:" (the default), "a:", "a*:" and "a\:".
PairPrefixes == {<<>>, <<"a">>, <<"a", "*">>, <<"a", "\\">>}

PairConfigs ==
  {Config("pair", <<p, p>>, <<"nil", "open">>, g, FALSE) :
     p \in PairPrefixes, g \in {0, 1}}

InitPair == \E c \in PairConfigs : Unbuilt(c)

NextPair ==
  \/ NewPair
  \/ \E key \in RedisKeys : PairGet(key)
  \/ \E key \in RedisKeys, val \in Payloads, exp \in TTLs :
       PairSet(key, val, exp)
  \/ \E key \in RedisKeys : PairDelete(key)
  \/ PairReset
  \/ Tick
  \/ RunGCTick
  \/ RunGCSweep

SpecPair == InitPair /\ [][NextPair]_vars

\* The sweep next to a caller that stores entries under two keys and reads
\* and deletes one of them.
InitSweep == NewStorage(Config("memory", <<<<"a">>>>, <<"nil">>, 1, FALSE))

NextSweep ==
  \/ \E key \in Keys \ {<<>>}, val \in Payloads \ {<<>>}, exp \in TTLs :
       Set(1, key, val, exp, FALSE)
  \/ Get(1, <<"j">>)
  \/ Delete(1, <<"j">>)
  \/ Tick
  \/ RunGCTick
  \/ RunGCSweep

SpecSweep == InitSweep /\ [][NextSweep]_vars

\* The sweep goroutine under the Go scheduler and a running ticker, next to
\* a caller that never reads key "k": one store with the sweep, one without.
InitLazy == \E c \in MemoryConfigs : NewStorage(c)

NextLazy ==
  \/ \E key \in Keys \ {<<>>}, val \in Payloads \ {<<>>}, exp \in TTLs :
       Set(1, key, val, exp, FALSE)
  \/ Get(1, <<"j">>)
  \/ Delete(1, <<"j">>)
  \/ Reset(1)
  \/ Tick
  \/ RunGCTick
  \/ RunGCSweep

\* The ticker of a store that is not closed goes on delivering ticks, and the
\* scheduler runs the goroutine that can take one or has a pass to make.
SpecLazy ==
  /\ InitLazy
  /\ [][NextLazy]_vars
  /\ WF_vars(RunGCTick)
  /\ WF_vars(RunGCSweep)

\* Reads of expired records over a connection that can drop between the two
\* round trips of a read: the Manager over a networked store, and the
\* generic record store.
InitLossy ==
  \E c \in {RedisConfig, Config("store", <<<<"a">>>>, <<"open">>, 0, FALSE)} :
    NewStorage(c)

NextLossy ==
  \/ \E id \in SessionIDs : kind = "redis" /\ CreateSession(id)
  \/ \E d \in {-1, MaxTTL + 1} : kind = "redis" /\ SetExpiresAt(d)
  \/ kind = "redis" /\ SaveHeld
  \/ \E id \in SessionIDs, derr \in {ErrNil, ErrConnLost} :
       kind = "redis" /\ LoadSessionDel(id, derr)
  \/ \E id \in WrittenIDs, d \in StoreData, ttl \in TTLs :
       StoreSet(1, id, d, ttl)
  \/ \E id \in WrittenIDs, derr \in {ErrNil, ErrConnLost} :
       StoreGetDel(1, id, derr)
  \/ Tick

SpecLossy == InitLossy /\ [][NextLossy]_vars

\* The Manager over a networked store whose calls can fail: the store is
\* built without a client, or its client is closed under the Manager.
InitFailing ==
  \E c \in {"open", "nil"} :
    NewStorage(Config("redis", <<<<"a">>>>, <<c>>, 0, FALSE))

NextFailing ==
  \/ \E id \in SessionIDs \cup {<<>>} : CreateSession(id)
  \/ SaveHeld
  \/ TouchSession
  \/ \E id \in SessionIDs \cup {<<>>} : LoadSession(id)
  \/ Close(1)
  \/ Tick

SpecFailing == InitFailing /\ [][NextFailing]_vars

(***************************************************************************)
(* A caller that keeps the slice Get returned and writes into it.          *)
(***************************************************************************)
\* MemoryStorage.Get, "return entry.data, nil", to a caller that keeps the
\* slice: the buffer the caller now holds is the entry's own slice.
GetKeep(s, key) ==
  LET fk == buildKey(s, key)
      got == MemGetResult(data, fk)
      d == Unshare(MemGet(data, fk))
  IN /\ kind = "memory"
     /\ data' = IF got.found THEN [d EXCEPT ![fk].shared = TRUE] ELSE d
     /\ buf' = IF got.found THEN [bytes |-> got.data, key |-> fk] ELSE NoBuf
     /\ ret' = Returned("Get", s, key, <<>>, got, ErrNil)
     /\ UNCHANGED <<now, confVars, written, gcVars, saved, held, rdb, raceVars>>

InitGetAlias == \E c \in MemoryConfigs : NewStorage(c)

NextGetAlias ==
  \/ \E key \in Keys \ {<<>>}, val \in Payloads \ {<<>>}, exp \in TTLs :
       Set(1, key, val, exp, FALSE)
  \/ \E key \in Keys \ {<<>>} : GetKeep(1, key)
  \/ \E i \in 1..1, b \in Bytes : MutateBuf(i, b)
  \/ Tick
  \/ RunGCTick
  \/ RunGCSweep

SpecGetAlias == InitGetAlias /\ [][NextGetAlias]_vars

\* The generic record store under a caller that asks whether ids exist.
InitExists == InitStore

NextExists ==
  \/ \E id \in RedisKeys, d \in StoreData, ttl \in TTLs :
       StoreSet(1, id, d, ttl)
  \/ \E id \in RedisKeys : StoreGet(1, id)
  \/ \E id \in RedisKeys : StoreExists(1, id)
  \/ \E id \in RedisKeys : StoreDelete(1, id)
  \/ Tick

SpecExists == InitExists /\ [][NextExists]_vars

(***************************************************************************)
(* KVManager.Refresh next to other callers of the store: its Get and its   *)
(* Set are two calls, and other calls come between them.                   *)
(***************************************************************************)
\* KVManager.Refresh, "rec, err := m.store.Get(ctx, id)" and the return for
\* an error or no record; else the call goes on to its Set.
RefreshRead(p, id, ttl) ==
  LET fk == buildKey(1, id)
      got == RedisStoreGetResult(rdb, 1, fk)
  IN /\ kind = "store" /\ calls[p].pc = "idle"
     /\ race.begun < MaxSets
     /\ rdb' = RedisStoreGet(rdb, 1, fk)
     /\ race' = [race EXCEPT !.begun = @ + 1]
     /\ IF RefreshFinds(got)
        THEN /\ calls' = [calls EXCEPT ![p] =
                            [pc |-> "set", key |-> id,
                             entry |-> <<[data |-> RecordData(got.val),
                                          arg |-> ttl]>>]]
             /\ ret' = [Idle EXCEPT !.op = "RefreshRead"]
        ELSE /\ calls' = calls
             /\ ret' = Returned("KVRefresh", 1, id, <<ttl>>, Absent, got.err)
     /\ UNCHANGED <<now, confVars, written, data, buf, gcVars, saved, held>>

\* KVManager.Refresh, "return m.store.Set(ctx, id, rec.Data, ttl)".
RefreshWrite(p) ==
  LET id == calls[p].key
      call == calls[p].entry[1]
  IN /\ calls[p].pc = "set"
     /\ rdb' = RedisStoreSet(rdb, 1, buildKey(1, id), id, call.data,
                             KVTTL(call.arg))
     /\ calls' = [calls EXCEPT ![p] = NoCalls[p]]
     /\ ret' = Returned("KVRefresh", 1, id, <<call.arg>>, Absent,
                        RedisStoreSetErr(1))
     /\ UNCHANGED <<now, confVars, written, data, buf, gcVars, saved, held,
                    race>>

\* One caller that refreshes an id, next to callers that set and delete it.
InitRefresh == InitStore

NextRefresh ==
  \/ \E id \in WrittenIDs, d \in StoreData, ttl \in TTLs :
       StoreSet(1, id, d, ttl)
  \/ \E id \in WrittenIDs : StoreGet(1, id)
  \/ \E id \in WrittenIDs : StoreDelete(1, id)
  \/ \E id \in WrittenIDs, ttl \in KVTTLs : RefreshRead(1, id, ttl)
  \/ RefreshWrite(1)
  \/ Tick

SpecRefresh == InitRefresh /\ [][NextRefresh]_vars

\* The Manager under a caller that also makes records with the empty id.
InitSave == \E c \in MemoryConfigs \cup {RedisConfig} : NewStorage(c)

NextSave ==
  \/ \E id \in SessionIDs \cup {<<>>} : CreateSession(id)
  \/ \E d \in {-1, MaxTTL + 1} : SetExpiresAt(d)
  \/ SaveHeld
  \/ \E id \in SessionIDs \cup {<<>>} : LoadSession(id)
  \/ Tick
  \/ RunGCTick
  \/ RunGCSweep

SpecSave == InitSave /\ [][NextSave]_vars

\* Payloads no KVSessionRecord can be read from, as another writer of the
\* server leaves them: two JSON values in one text, an id that is a number,
\* data that is a string, an expires_at that is no time.
MalformedRecords ==
  LET doc == [id |-> JString(<<"k">>), data |-> JObject(EmptyMap),
              created_at |-> MarshalTime([wall |-> 0, mono |-> FALSE]),
              expires_at |-> MarshalTime([wall |-> MaxTime + MaxTTL,
                                          mono |-> FALSE])]
  IN {<<doc, doc>>,
      <<[doc EXCEPT !.id = JNumber(<<"1">>)]>>,
      <<[doc EXCEPT !.data = JString(<<"v">>)]>>,
      <<[doc EXCEPT !.expires_at = JString(<<"x">>)]>>}

\* Another client of the server writes payload p under the full key fk.
ServerWrite(fk, p) ==
  /\ kind = "store"
  /\ rdb' = ServerSet(rdb, fk, p, 0)
  /\ ret' = Idle
  /\ UNCHANGED <<now, confVars, written, data, buf, gcVars, saved, held,
                 raceVars>>

\* The generic record store on a server another client writes to, over a
\* connection that can fail for one round trip or be closed.
InitUnread == InitStore

NextUnread ==
  \/ \E id \in WrittenIDs, d \in StoreData, ttl \in TTLs :
       StoreSet(1, id, d, ttl)
  \/ \E id \in WrittenIDs, d \in StoreData, ttl \in TTLs :
       StoreSetPre("Set", 1, id, d, ttl, <<>>, Absent, ErrConnLost)
  \/ \E id \in WrittenIDs : StoreGet(1, id)
  \/ \E id \in WrittenIDs, p \in MalformedRecords :
       ServerWrite(buildKey(1, id), p)
  \/ Close(1)
  \/ Tick

SpecUnread == InitUnread /\ [][NextUnread]_vars

(***************************************************************************)
(* Properties.                                                             *)
(***************************************************************************)
\* The full key of the call that returned last.
RetKey == buildKey(ret.store, ret.key)

\* The last step was a call op of the Storage contract.
StorageCall(op) == ret.op = op /\ kind \in {"memory", "redis"}

\* The store of the last call has its client (an in-process store needs none).
ClientSet == kind = "memory" \/ client[ret.store] # "nil"

\* The history holds a Set of RetKey, with a ttl > 0, that the clock is past.
Lapsed ==
  RetKey \in DOMAIN written /\ written[RetKey].expiring
  /\ now > written[RetKey].until

\* C1: a Get of a key that was Set with a ttl > 0 at clock value t, and not
\* touched by a Set, Delete or Reset since, returns the payload at every clock
\* value up to t + ttl and returns absent, without an error, at every clock
\* value after it, whether a sweep has run or not.
C1_GetWithinTTL ==
  StorageCall("Get") /\ RetKey \in DOMAIN written /\ written[RetKey].expiring
    => /\ ret.err = ErrNil
       /\ ret.val = IF now <= written[RetKey].until
                    THEN Found(written[RetKey].val) ELSE Absent

\* A Get at the very instant t + ttl has returned the payload.
C1_GetAtDeadline ==
  /\ StorageCall("Get")
  /\ RetKey \in DOMAIN written /\ written[RetKey].expiring
  /\ now = written[RetKey].until
  /\ ret.val = Found(written[RetKey].val)

\* C2: a Get of a key that was Set with ttl 0, and not touched by a Set,
\* Delete or Reset since, returns the payload at every later clock value,
\* whatever sweeps have run.
C2_GetWithoutTTL ==
  StorageCall("Get") /\ RetKey \in DOMAIN written /\ ~written[RetKey].expiring
    => ret.err = ErrNil /\ ret.val = Found(written[RetKey].val)

\* A Get has returned a payload stored with ttl 0 at an earlier clock value.
C2_GetLongAfter ==
  /\ StorageCall("Get")
  /\ RetKey \in DOMAIN written /\ ~written[RetKey].expiring
  /\ now > written[RetKey].until + 1
  /\ ret.val = Found(written[RetKey].val)

\* A step that is a Set with an empty key or an empty payload returns no
\* error and changes neither what is stored nor what any Get returns.
EmptySetIgnored ==
  /\ ret'.err = ErrNil
  /\ data' = data /\ rdb' = rdb
  /\ \A s \in StoreIds, key \in KeysOf :
       GetResult(St', s, key) = GetResult(St, s, key)

EmptySet ==
  /\ ret'.op = "Set" /\ kind \in {"memory", "redis"}
  /\ ret'.key = <<>> \/ ret'.arg = <<>>

\* C3, as stated: Set with an empty key or an empty payload is a silent no-op
\* on both backends: no error, nothing stored changes, every Get returns what
\* it returned before.
C3_EmptySetIgnoredAlways == [][EmptySet => EmptySetIgnored]_vars

\* C3, amended: the same on the in-process store and on a networked store
\* whose client is set; a networked store without a client returns an error.
C3_EmptySetIgnored ==
  [][EmptySet /\ ClientSet' => EmptySetIgnored]_vars

\* A Set with an empty key has returned while entries were stored.
C3_EmptyKeySetReturned ==
  /\ StorageCall("Set") /\ ret.key = <<>> /\ ret.arg # <<>> /\ ret.err = ErrNil
  /\ DOMAIN data \cup DOMAIN rdb # {}

\* C4: after Set(k, buf, ttl) has returned, what the caller writes into buf
\* changes neither the stored payload nor what a later Get(k) returns: both
\* are the bytes buf had when it was passed to Set.
C4_PayloadIsolation ==
  /\ \A fk \in DOMAIN data \cap DOMAIN written : data[fk].data = written[fk].val
  /\ StorageCall("Get") /\ ret.val.found /\ RetKey \in DOMAIN written
       => ret.val.data = written[RetKey].val

\* A Get has returned the payload of the key whose buffer the caller has
\* overwritten since.
C4_GetAfterOverwrite ==
  /\ StorageCall("Get") /\ ret.val.found
  /\ RetKey = buf.key /\ buf.bytes # ret.val.data

\* A step that is a Get of a key that was never set, was deleted or has
\* expired returns absent and no error.
GetNotFound ==
  ret'.op = "Get" /\ (RetKey' \notin DOMAIN written' \/ Lapsed')

GetNotFoundOk == ret'.val = Absent /\ ret'.err = ErrNil

\* A step that is a Delete of a key no Get would return: it returns no error
\* and every other stored entry stays as it is.
DeleteAbsent ==
  /\ ret'.op = "Delete"
  /\ RetKey' \notin DOMAIN data \cup DOMAIN rdb

DeleteAbsentOk ==
  /\ ret'.err = ErrNil
  /\ Remove(data', RetKey') = Remove(data, RetKey')
  /\ Remove(rdb', RetKey') = Remove(rdb, RetKey')

KeyOf(s, fk) == \E key \in RedisKeys \cup Keys : fk = buildKey(s, key)

\* C6: a Reset of store s removes every key of s and leaves every key of a
\* store with another prefix as it is, also when one prefix is a proper
\* prefix of the other.
C6_ResetOwnKeysOnly ==
  [][ret'.op = "Reset" /\ ret'.err = ErrNil =>
       \A fk \in DOMAIN data \cup DOMAIN rdb :
         /\ KeyOf(ret'.store, fk) => fk \notin DOMAIN data' \cup DOMAIN rdb'
         /\ (\E o \in StoreIds \ {ret'.store} : KeyOf(o, fk))
              => fk \in DOMAIN rdb' /\ rdb'[fk] = rdb[fk]]_vars

\* The prefix store 1 was configured with, and the one it keeps.
Configured == cfg.KeyPrefix[1]
Kept == keyPrefix[1]

\* A non-empty prefix gets a ':' appended unless it ends in one.
SeparatorAppended ==
  Configured # <<>> =>
    Kept = IF Configured[Len(Configured)] = ":" THEN Configured
           ELSE Append(Configured, ":")

\* C7, as stated: every constructor keeps a prefix that ends in ':': a
\* non-empty prefix gets a ':' appended unless it ends in one, and an empty
\* prefix is replaced by "session:".
C7_PrefixNormalizedAlways ==
  keyPrefix # <<>> =>
    /\ SeparatorAppended
    /\ Configured = <<>> => Kept = DefaultPrefix
    /\ Kept # <<>> /\ Kept[Len(Kept)] = ":"

\* C7, amended: every constructor appends a ':' to a non-empty prefix unless
\* it ends in one; NewMemoryStorage and NewRedisStorage replace an empty
\* prefix by "session:", NewRedisStore keeps an empty prefix empty.
C7_PrefixNormalized ==
  keyPrefix # <<>> =>
    /\ SeparatorAppended
    /\ Configured = <<>> =>
         Kept = IF kind = "store" THEN <<>> ELSE DefaultPrefix

\* NewRedisStore has been given an empty prefix.
C7_StoreBuiltWithEmptyPrefix ==
  ret.op = "New" /\ kind = "store" /\ Configured = <<>> /\ Kept = <<>>

\* C8: every call of Close, the first and each later one, returns no error
\* and does not panic, on either backend.
C8_CloseIdempotent ==
  ret.op = "Close" => ~ret.panic /\ ret.err = ErrNil

\* C9, as stated: once Close has been called on an in-process store, no sweep
\* pass runs any more.
C9_NoSweepAfterClose == sweepsAfterClose = 0

\* C9, amended: once Close has been called on an in-process store, the sweep
\* goroutine exits after at most two more passes (the pass whose tick it had
\* already taken, and one for a tick left in a buffered timer channel), and
\* never sweeps again; the first Close returns no error and does not panic,
\* on a store built with sweep interval 0 too.
C9_SweepEnds ==
  /\ [](sweepsAfterClose <= IF asyncTimer THEN 2 ELSE 1)
  /\ [](kind = "memory" /\ closes = 1 /\ ret.op = "Close"
          => ~ret.panic /\ ret.err = ErrNil)
  /\ (kind = "memory" /\ closes > 0) ~> (gcPc \in {"none", "exited"})

\* The sweep goroutine has exited after a pass that ran after Close.
C9_ExitedAfterLatePass ==
  kind = "memory" /\ gcPc = "exited" /\ sweepsAfterClose > 0

\* The strings of a record are valid UTF-8.
ValidUTF8(str) == \A i \in 1..Len(str) : str[i] # "xff"

\* A record JSON carries as it is: valid UTF-8 strings, and custom data of
\* the types json.Unmarshal produces.
Portable(r) ==
  /\ \A str \in {r.ID, r.UserID, r.Email, r.Phone} : ValidUTF8(str)
  /\ \A i \in 1..Len(r.AMR) : ValidUTF8(r.AMR[i])
  /\ \A i \in 1..Len(r.Scopes) : ValidUTF8(r.Scopes[i])
  /\ \A k \in DOMAIN r.Data :
       /\ r.Data[k].type \in {"string", "float64", "bool"}
       /\ r.Data[k].type = "string" => ValidUTF8(r.Data[k].v)

\* Two records agree field by field; times agree as instants.
SameSession(a, b) ==
  /\ a.ID = b.ID /\ a.UserID = b.UserID /\ a.Email = b.Email
  /\ a.Phone = b.Phone /\ a.Authenticated = b.Authenticated
  /\ a.Data = b.Data
  /\ a.CreatedAt.wall = b.CreatedAt.wall
  /\ a.ExpiresAt.wall = b.ExpiresAt.wall
  /\ a.LastAccessedAt.wall = b.LastAccessedAt.wall
  /\ a.AMR = b.AMR /\ a.Scopes = b.Scopes

\* LoadSession has returned for a record that was saved and has not expired.
Loaded ==
  /\ ret.op = "LoadSession"
  /\ RetKey \in DOMAIN saved
  /\ now <= saved[RetKey].ExpiresAt.wall

Stored(st) ==
  IF kind = "memory" THEN [fk \in DOMAIN st.data |-> st.data[fk].data]
  ELSE [fk \in DOMAIN st.rdb |-> st.rdb[fk].val]

StorageExpiry(st) ==
  IF kind = "memory" THEN [fk \in DOMAIN st.data |-> st.data[fk].expiresAt]
  ELSE [fk \in DOMAIN st.rdb |-> st.rdb[fk].expireAt]

\* A step that is a LoadSession of a key whose stored payload is a session
\* record with an ExpiresAt before the clock.
LoadOfExpired ==
  /\ ret'.op = "LoadSession"
  /\ RetKey' \in DOMAIN Stored(St)
  /\ UnmarshalSessionErr(Stored(St)[RetKey']) = ErrNil
  /\ UnmarshalSession(Stored(St)[RetKey']).ExpiresAt.wall < now

\* C11: LoadSession of a stored record whose persisted ExpiresAt is before
\* the clock returns absent and no error, and afterwards the backend does not
\* hold the key: a Get on the storage returns absent.
C11_LoadExpiredRemoves ==
  [][LoadOfExpired =>
       /\ ret'.val = Absent /\ ret'.err = ErrNil
       /\ RetKey' \notin DOMAIN Stored(St')
       /\ GetResult(St', 1, ret'.key).val = Absent]_vars

\* LoadSession has returned absent for a record that was saved with an
\* ExpiresAt in the past and that the Manager has deleted since.
C11_LoadedExpired ==
  /\ ret.op = "LoadSession" /\ ret.val = Absent /\ ret.err = ErrNil
  /\ RetKey \in DOMAIN saved /\ saved[RetKey].ExpiresAt.wall < now
  /\ RetKey \notin DOMAIN written
  /\ RetKey \notin DOMAIN Stored(St)

\* A step that is a LoadSession of a key whose payload the storage returns
\* and json.Unmarshal rejects.
LoadOfMalformed ==
  /\ ret'.op = "LoadSession"
  /\ GetResult(St, 1, ret'.key).err = ErrNil
  /\ GetResult(St, 1, ret'.key).val.found
  /\ UnmarshalSessionErr(GetResult(St, 1, ret'.key).val.data) # ErrNil

\* C12: LoadSession of a key whose stored payload cannot be deserialized
\* into a session record returns an error: never absent without an error,
\* never a record.
C12_LoadMalformedFails ==
  [][LoadOfMalformed => ret'.err # ErrNil /\ ~ret'.val.found]_vars

\* LoadSession has returned the error of json.Unmarshal.
C12_LoadReturnedError ==
  ret.op = "LoadSession" /\ ret.err = ErrUnmarshal /\ ~ret.val.found

\* The time to live of a record saved at the current clock value: what is
\* left until ExpiresAt when that is positive, else the configured
\* expiration.
ExpectedTTL(r) ==
  IF r.ExpiresAt.wall - now > 0 THEN r.ExpiresAt.wall - now
  ELSE ConfigExpiration

\* C13: SaveSession(r) stores r under r.ID with the time to live
\* ExpiresAt - now when that is positive and the configured expiration when
\* it is zero or negative; a record that has expired is stored too, and
\* SaveSession returns no error for it.
C13_SaveTTL ==
  [][ret'.op = "SaveSession" =>
       /\ ret'.err = ErrNil
       /\ RetKey' \in DOMAIN Stored(St')
       /\ Stored(St')[RetKey'] = MarshalSession(ret'.arg[1])
       /\ StorageExpiry(St')[RetKey'] = now + ExpectedTTL(ret'.arg[1])]_vars

\* SaveSession has stored a record that had expired, with the configured
\* expiration as its time to live.
C13_SavedExpired ==
  /\ ret.op = "SaveSession" /\ ret.err = ErrNil
  /\ ret.arg[1].ExpiresAt.wall < now
  /\ RetKey \in DOMAIN Stored(St)
  /\ StorageExpiry(St)[RetKey] = now + ConfigExpiration

\* A step that is a TouchSession: the record before it and after it.
Touching == ret'.op = "TouchSession"
Before == ret'.arg[1]
After == held'[1]

\* TouchSession has stored the record as it is after the call, with
\* ExpiresAt = now + the configured expiration.
TouchPersisted ==
  /\ ret'.err = ErrNil
  /\ After.ExpiresAt.wall = now + ConfigExpiration
  /\ RetKey' \in DOMAIN Stored(St')
  /\ Stored(St')[RetKey'] = MarshalSession(After)

\* C14, as stated: TouchSession(r) makes r.LastAccessedAt and r.ExpiresAt
\* strictly greater than they were, for every record and every configured
\* expiration, and stores the record with ExpiresAt = now + the configured
\* expiration.
C14_TouchIncreasesAlways ==
  [][Touching =>
       /\ After.LastAccessedAt.wall > Before.LastAccessedAt.wall
       /\ After.ExpiresAt.wall > Before.ExpiresAt.wall
       /\ TouchPersisted]_vars

\* C14, amended: TouchSession(r) sets r.LastAccessedAt to now and
\* r.ExpiresAt to now + the configured expiration and stores the record.
\* LastAccessedAt does not decrease, and increases when the clock has moved
\* since the last access; ExpiresAt increases exactly when it was before
\* now + the configured expiration.
C14_TouchIncreases ==
  [][Touching =>
       /\ After.LastAccessedAt.wall = now
       /\ After.LastAccessedAt.wall >= Before.LastAccessedAt.wall
       /\ Before.LastAccessedAt.wall < now
            => After.LastAccessedAt.wall > Before.LastAccessedAt.wall
       /\ After.ExpiresAt.wall > Before.ExpiresAt.wall
            <=> Before.ExpiresAt.wall < now + ConfigExpiration
       /\ TouchPersisted]_vars

\* TouchSession has moved both times of a record forward and stored it.
C14_TouchedLater ==
  /\ ret.op = "TouchSession" /\ ret.err = ErrNil
  /\ held[1].LastAccessedAt.wall > ret.arg[1].LastAccessedAt.wall
  /\ held[1].ExpiresAt.wall > ret.arg[1].ExpiresAt.wall
  /\ RetKey \in DOMAIN Stored(St)
  /\ Stored(St)[RetKey] = MarshalSession(held[1])

\* No entry of seq occurs twice.
NoDuplicates(seq) ==
  \A i, j \in 1..Len(seq) : seq[i] = seq[j] => i = j

\* A step that adds e to a collection that is before and after after it: an
\* entry that is there leaves the collection as it is, a new one goes to its
\* end.
Added(before, after, e) ==
  IF \E i \in 1..Len(before) : before[i] = e THEN after = before
  ELSE after = before \o <<e>>

\* C15: from a new session record on, the AMR and scopes collections never
\* hold an entry twice; adding an entry that is there changes nothing, and a
\* new entry goes behind the ones added before it, so that the entries stand
\* in the order of their first insertion.
C15_NoDuplicateEntries ==
  /\ [](held # <<>> =>
          NoDuplicates(held[1].AMR) /\ NoDuplicates(held[1].Scopes))
  /\ [][/\ ret'.op = "AddAMR" =>
             /\ Added(held[1].AMR, held'[1].AMR, ret'.arg)
             /\ held'[1].Scopes = held[1].Scopes
        /\ ret'.op = "AddScope" =>
             /\ Added(held[1].Scopes, held'[1].Scopes, ret'.arg)
             /\ held'[1].AMR = held[1].AMR
        /\ ret'.op = "CreateSession" =>
             held'[1].AMR = <<>> /\ held'[1].Scopes = <<>>]_vars

\* AddAMR has been called with a method the record holds already, in a record
\* with three methods and two scopes.
C15_AddedPresentEntry ==
  /\ ret.op = "AddAMR" /\ held # <<>>
  /\ Len(held[1].AMR) = 3 /\ Len(held[1].Scopes) = 2
  /\ ret.arg = held[1].AMR[1]

\* The record the generic record store holds under full key fk.
RecordAt(db, fk) == UnmarshalRecord(db[fk].val)

\* The store holds a record under fk that has not expired.
HoldsLive(db, fk) == fk \in DOMAIN db /\ now <= RecordAt(db, fk).ExpiresAt.wall

\* C16: RedisStore.Set(id, data, ttl) on an id that holds an unexpired
\* record stores the new data (as the JSON document it encodes to), keeps
\* CreatedAt as it was and sets ExpiresAt to now + ttl; a Get of an id whose
\* record has not expired returns the data last set with the CreatedAt of
\* the first write.
C16_SetKeepsCreatedAt ==
  /\ [][ret'.op = "Set" /\ kind = "store" /\ HoldsLive(rdb, RetKey') =>
          /\ ret'.err = ErrNil
          /\ RetKey' \in DOMAIN rdb'
          /\ MarshalMap(RecordAt(rdb', RetKey').Data)
               = MarshalMap(written'[RetKey'].val)
          /\ RecordAt(rdb', RetKey').CreatedAt.wall
               = RecordAt(rdb, RetKey').CreatedAt.wall
          /\ RecordAt(rdb', RetKey').ExpiresAt.wall
               = now + written'[RetKey'].ttl]_vars
  /\ [](ret.op = "Get" /\ kind = "store" /\ RetKey \in DOMAIN written
          /\ now <= written[RetKey].until =>
            /\ ret.err = ErrNil /\ ret.val.found
            /\ MarshalMap(ret.val.data.Data) = MarshalMap(written[RetKey].val)
            /\ ret.val.data.CreatedAt.wall = written[RetKey].since
            /\ ret.val.data.ExpiresAt.wall = written[RetKey].until)

\* Get has returned a record with the data of a Set that came at a later
\* clock value than the record's CreatedAt.
C16_GetAfterUpdate ==
  /\ ret.op = "Get" /\ kind = "store" /\ ret.val.found
  /\ RetKey \in DOMAIN written
  /\ ret.val.data.CreatedAt.wall < written[RetKey].until - written[RetKey].ttl
  /\ MarshalMap(ret.val.data.Data) = MarshalMap(written[RetKey].val)

\* C17: after every Create or Set of the generic record store, with whatever
\* time to live, the instant the backend drops the key at is the ExpiresAt
\* of the record it holds.
C17_ExpiryConsistent ==
  kind = "store" =>
    \A fk \in DOMAIN rdb :
      /\ rdb[fk].expireAt # ZeroTime
      /\ rdb[fk].expireAt = RecordAt(rdb, fk).ExpiresAt.wall

KVWrite ==
  /\ ret'.op \in {"KVCreate", "KVSet", "KVRefresh"}
  /\ ret'.err = ErrNil
  /\ ret'.op = "KVRefresh" => HoldsLive(rdb, RetKey')

\* The time to live a caller of KVManager is owed for the one it passed.
OwedTTL(ttl) == IF ttl > 0 THEN ttl ELSE KVDefaultTTL

\* C19: KVManager.Create, Set and Refresh pass the default time to live to
\* the store when the caller's is zero or negative, and the caller's own
\* when it is positive: the record expires, and the backend drops the key,
\* at now + that time to live.
C19_DefaultTTL ==
  [][KVWrite =>
       /\ RetKey' \in DOMAIN rdb'
       /\ rdb'[RetKey'].expireAt = now + OwedTTL(ret'.arg[1])
       /\ RecordAt(rdb', RetKey').ExpiresAt.wall
            = now + OwedTTL(ret'.arg[1])]_vars

\* Refresh has been called with a time to live that is not positive, and the
\* record has got the default.
C19_RefreshedWithDefault ==
  /\ ret.op = "KVRefresh" /\ ret.err = ErrNil /\ ret.arg[1] <= 0
  /\ RetKey \in DOMAIN rdb
  /\ rdb[RetKey].expireAt = now + KVDefaultTTL
  /\ RecordAt(rdb, RetKey).CreatedAt.wall < now

\* The store holds no record under the key of the call: none was written,
\* or it was deleted, or it has expired.
NoRecord == RetKey' \notin DOMAIN written \/ now > written[RetKey'].until

\* C20: KVManager.Refresh of an id the store holds no record for returns no
\* error and writes nothing: afterwards the store holds no record under the
\* id, and every other key is as it was.
C20_RefreshAbsentNoop ==
  [][ret'.op = "KVRefresh" /\ NoRecord =>
       /\ ret'.err = ErrNil
       /\ RetKey' \notin DOMAIN rdb'
       /\ Remove(rdb', RetKey') = Remove(rdb, RetKey')]_vars

\* Refresh has returned for an id whose record had expired.
C20_RefreshedExpired ==
  /\ ret.op = "KVRefresh" /\ ret.err = ErrNil
  /\ RetKey \in DOMAIN written /\ now > written[RetKey].until
  /\ RetKey \notin DOMAIN rdb

(***************************************************************************)
(* The factory.                                                            *)
(***************************************************************************)
\* The last step was a call of the factory.
FactoryCall == ret.op \in {"NewStorage", "MustNewStorage"}

\* The factory had to dial a client of its own and the dial did not succeed.
DialFailed == cfg.RedisClient[1] = "nil" /\ ret.arg[1] # "ok"

\* The configured type is none of the two the factory knows.
UnknownType == kind \notin {"memory", "redis"}

\* C21 as stated: NewStorage returns an in-process store for type "memory",
\* a networked store for type "redis", and an error and no store for every
\* other type; MustNewStorage panics exactly when NewStorage returns an error.
C21_FactoryByKindAlways ==
  /\ ret.op = "NewStorage" =>
       /\ kind = "memory" => ret.val = Built("memory") /\ ret.err = ErrNil
       /\ kind = "redis" => ret.val = Built("redis") /\ ret.err = ErrNil
       /\ UnknownType => ret.val = Absent /\ ret.err # ErrNil
  /\ ret.op = "MustNewStorage" => (ret.panic <=> UnknownType)

\* C21, amended: NewStorage returns an in-process store for type "memory";
\* for type "redis" a networked store when the caller supplied a client or
\* the client the factory dials answers, and an error and no store when that
\* client cannot be created or does not answer; for every other type the
\* unknown-type error and no store.  MustNewStorage panics in exactly the
\* cases in which NewStorage returns an error, and returns the same store in
\* the others.
C21_FactoryByKind ==
  /\ ret.op = "NewStorage" =>
       /\ kind = "memory" => ret.val = Built("memory") /\ ret.err = ErrNil
       /\ kind = "redis" /\ ~DialFailed =>
            ret.val = Built("redis") /\ ret.err = ErrNil
       /\ kind = "redis" /\ DialFailed =>
            ret.val = Absent /\ ret.err \in {ErrCreateClient, ErrConnect}
       /\ UnknownType => ret.val = Absent /\ ret.err = ErrUnknownType
  /\ ret.op = "MustNewStorage" =>
       /\ ret.panic <=> (UnknownType \/ (kind = "redis" /\ DialFailed))
       /\ ~ret.panic => ret.val = Built(kind)
  /\ FactoryCall => (keyPrefix # <<>> <=> ret.val # Absent)

\* C21, witness: MustNewStorage has panicked on a type the factory does not
\* know.
C21_PanickedOnUnknownType ==
  ret.op = "MustNewStorage" /\ ret.panic /\ kind = "file"

\* C22: when the factory dials a client of its own and the Ping fails, the
\* client is closed when the constructor returns, and the constructor returns
\* a wrapped error and no store: in no state has the construction failed
\* while the client it created is open.  A client the caller supplied is
\* used as it is, whatever its state: no client is created, none is probed,
\* and the store is returned without an error.
C22_FailedDialCloses ==
  /\ FactoryCall /\ kind = "redis" /\ cfg.RedisClient[1] = "nil" =>
       /\ ret.arg[1] = "no reply" =>
            /\ client[1] = "closed"
            /\ ret.val = Absent
            /\ ret.panic \/ ret.err = ErrConnect
       /\ ret.arg[1] = "ok" => client[1] = "open" /\ ret.val = Built("redis")
  /\ ret.op # "none" /\ kind = "redis" /\ keyPrefix = <<>> => client[1] # "open"
  /\ FactoryCall /\ kind = "redis" /\ cfg.RedisClient[1] # "nil" =>
       /\ client = cfg.RedisClient
       /\ ret.val = Built("redis")
       /\ ret.err = ErrNil /\ ~ret.panic

\* C22, witness: NewStorage has returned the connection error and the client
\* it dialed is closed.
C22_ReturnedAfterFailedPing ==
  ret.op = "NewStorage" /\ ret.err = ErrConnect /\ client[1] = "closed"

(***************************************************************************)
(* Stores without a client.                                                *)
(***************************************************************************)
\* The calls of RedisStorage and RedisStore that go to the client.
ClientCalls ==
  {"Get", "Set", "Delete", "Reset", "Exists", "GetTTL", "Expire", "Create"}

\* C23: a call of Get, Set, Delete, Reset, Exists, GetTTL or Expire on a
\* networked store, or of Create, Get, Set, Delete or Exists on a generic
\* record store, whose client is nil returns an error whatever its arguments
\* (an empty key and an empty payload included) and does not reach the
\* server: it does not go through the nil client, and the keyspace is what
\* it was.  Close on such a store returns no error.
C23_NilClientFails ==
  [][/\ ret'.op \in ClientCalls /\ client[ret'.store] = "nil" =>
          /\ ret'.err # ErrNil
          /\ ~ret'.panic
          /\ rdb' = rdb
     /\ ret'.op = "Close" /\ client[ret'.store] = "nil" =>
          /\ ret'.err = ErrNil
          /\ ~ret'.panic
          /\ rdb' = rdb /\ client' = client]_vars

\* C23, witness: a Set of an empty key with an empty payload on the store
\* without a client has returned the error, next to a store that holds a key.
C23_EmptySetOnNilClient ==
  /\ ret.op = "Set" /\ kind = "redis" /\ client[ret.store] = "nil"
  /\ ret.key = <<>> /\ ret.arg = <<>>
  /\ ret.err = ErrNilClient
  /\ rdb # EmptyMap

(***************************************************************************)
(* The session Config and the cookie.                                      *)
(***************************************************************************)
\* The settings under test that spell each same-site value, whatever their
\* case and the white space around them.
SpelledStrict == {SameSiteStrict, <<"s", "t", "r", "i", "c", "t", "\t">>}
SpelledLax == {SameSiteLax, <<"l", "a", "x">>, <<" ", "L", "A", "X", " ">>}
SpelledNone == {SameSiteNone, <<"n", "o", "n", "e">>, <<" ", "N", "O", "N", "E">>}
SpelledDisabled ==
  {SameSiteDisabled, <<"d", "i", "s", "a", "b", "l", "e", "d">>}
Recognized == SpelledStrict \cup SpelledLax \cup SpelledNone \cup SpelledDisabled

\* The Secure attribute and the same-site mode of the cookie, or of the
\* middleware's configuration, that the last call returned.
ReturnedSecure ==
  IF ret.op = "CreateCookie" THEN ret.val.data[1].Secure
  ELSE ret.val.data[1].CookieSecure

ReturnedSameSite ==
  IF ret.op = "CreateCookie" THEN ret.val.data[1].SameSite
  ELSE ret.val.data[1].CookieSameSite

\* C24: for every Config, what CreateCookie and FiberSessionConfig return
\* never has same-site mode None with Secure false: a setting that spells
\* None gives mode None with Secure true, whatever the configured flag; every
\* other setting keeps the configured flag; a setting that spells none of the
\* four values gives mode Lax, and no error.
C24_NoneImpliesSecure ==
  ret.op \in {"CreateCookie", "FiberSessionConfig"} =>
    /\ ~(ReturnedSameSite = "none" /\ ~ReturnedSecure)
    /\ config.SameSite \in SpelledNone =>
         ReturnedSameSite = "none" /\ ReturnedSecure
    /\ config.SameSite \notin SpelledNone => ReturnedSecure = config.Secure
    /\ config.SameSite \in SpelledStrict => ReturnedSameSite = "strict"
    /\ config.SameSite \in SpelledDisabled => ReturnedSameSite = "disabled"
    /\ config.SameSite \notin Recognized =>
         ReturnedSameSite = "lax" /\ ret.err = ErrNil /\ ~ret.panic

\* C24, witness: CreateCookie has returned a Secure cookie for a Config that
\* spells None in capitals after a blank and has Secure false.
C24_SecureForced ==
  /\ ret.op = "CreateCookie"
  /\ config.SameSite = <<" ", "N", "O", "N", "E">> /\ ~config.Secure
  /\ ReturnedSecure /\ ReturnedSameSite = "none"

\* C25 as stated: Validate returns an error exactly when the cookie name is
\* empty, or the cookie path is empty, or the expiration is negative, or the
\* same-site setting spells none of Strict, Lax, None, Disabled (case and
\* surrounding white space aside), or it spells None while Secure is false.
C25_ValidateExactlyAlways ==
  ret.op = "Validate" =>
    (ret.err # ErrNil <=>
       \/ config.CookieName = <<>>
       \/ config.CookiePath = <<>>
       \/ config.Expiration < 0
       \/ config.SameSite \notin Recognized
       \/ config.SameSite \in SpelledNone /\ ~config.Secure)

\* C25, amended: Validate returns an error exactly when the cookie name is
\* empty, or the cookie path is empty, or the expiration is negative, or the
\* same-site setting is not the empty string and spells none of Strict, Lax,
\* None, Disabled (case and surrounding white space aside), or it spells None
\* while Secure is false; the default Config is valid.
C25_ValidateExactly ==
  ret.op = "Validate" =>
    /\ ret.err # ErrNil <=>
         \/ config.CookieName = <<>>
         \/ config.CookiePath = <<>>
         \/ config.Expiration < 0
         \/ config.SameSite # <<>> /\ config.SameSite \notin Recognized
         \/ config.SameSite \in SpelledNone /\ ~config.Secure
    /\ config = DefaultConfig => ret.err = ErrNil

\* C25, witness: Validate has rejected a Config, valid otherwise, that spells
\* None in lower case and has Secure false.
C25_RejectedNoneWithoutSecure ==
  /\ ret.op = "Validate"
  /\ config = [DefaultConfig EXCEPT !.SameSite = <<"n", "o", "n", "e">>,
                                    !.Secure = FALSE]
  /\ ret.err = "same-site None requires Secure=true"

\* C26: Validate returns no error for the zero-value Config.
C26_ZeroConfigValid ==
  ret.op = "Validate" /\ config = ZeroConfig => ret.err = ErrNil

(***************************************************************************)
(* Overlapping calls.                                                      *)
(***************************************************************************)
\* A call of Set has built its entry and has not stored it yet.
Writing == \E p \in Procs : calls[p].pc = "store"

\* The payloads a Get next to the overlapping calls of Set may return: the
\* one the key held before them, and theirs.
Returnable ==
  {e.data : e \in race.wrote}
  \cup {race.prior[i].data : i \in DOMAIN race.prior}

\* C27: when two or more calls of Set for one key overlap, then in every
\* interleaving, once all of them have returned, the entry the key holds is
\* the payload and the expiry of one of those calls, never the payload of
\* one with the expiry of another (the key holds no entry only once an expiry
\* of theirs has passed), and a Get next to them returns absent, the payload
\* the key held before, or the whole payload of one of the calls.
C27_LastWriterWins ==
  LET fk == buildKey(1, <<"k">>) IN
  /\ race.size >= 2 /\ ~Writing =>
       IF fk \in DOMAIN data THEN data[fk] \in race.wrote
       ELSE \E e \in race.wrote : isExpired(e)
  /\ ret.op = "Get" /\ race.size >= 2 /\ ret.val.found =>
       ret.val.data \in Returnable

\* No caller is in the middle of a call.
AllReturned == \A p \in Procs : calls[p].pc = "idle"

\* The overlapping calls of Set whose data and ExpiresAt the record rec has.
WritersOf(rec) ==
  {w \in race.wrote : /\ MarshalMap(rec.Data) = w.data
                      /\ rec.ExpiresAt.wall = w.expiresAt}

\* C28: when two calls of RedisStore.Set for one id overlap, then in every
\* interleaving, once both have returned, the record the id holds has the
\* data and the ExpiresAt of one of the two calls, and its CreatedAt is one
\* a writer chose: the CreatedAt of the record the id held before them, or
\* the clock value one of the two calls began at; no other CreatedAt is
\* reachable.  (The id holds no record only once the server has expired it.)
C28_CreatedAtOfAWriter ==
  LET fk == buildKey(1, <<"k">>) IN
  race.size >= 2 /\ AllReturned =>
    IF fk \in DOMAIN rdb
    THEN /\ WritersOf(RecordAt(rdb, fk)) # {}
         /\ RecordAt(rdb, fk).CreatedAt.wall
              \in {w.now : w \in race.wrote}
                  \cup {race.prior[i].CreatedAt.wall : i \in DOMAIN race.prior}
    ELSE \E w \in race.wrote : w.ttl > 0 /\ now > w.now + w.ttl

\* C28, witness: both calls have returned, the id held no record before
\* them, and the record it holds has the data and ExpiresAt of one call and
\* as its CreatedAt the clock value of the call that began last, not of the
\* one that began first.
C28_LaterCreatedAtStored ==
  LET fk == buildKey(1, <<"k">>) IN
  /\ race.size = 2 /\ AllReturned /\ race.prior = <<>>
  /\ fk \in DOMAIN rdb
  /\ WritersOf(RecordAt(rdb, fk)) # {}
  /\ \E w \in race.wrote : w.now < RecordAt(rdb, fk).CreatedAt.wall

\* C29: every Get made on both backends after the same calls at the same
\* clock values returns the same from both: the same payload or absent from
\* both, and no error.
C29_SameGetResults ==
  PairBuilt /\ ret.op = "Get" => ret.arg = <<ret.val>> /\ ret.err = ErrNil

\* Entry e has an expiry instant, and the clock is past it.
Due(e) == e.expiresAt # ZeroTime /\ e.expiresAt < now

\* C30: a sweep pass removes every entry whose expiry instant is before the
\* clock and no other entry; the entries it leaves keep their payloads and
\* their expiry instants, and it adds none.
C30_SweepRemovesExpired ==
  [][gcPc = "gc" /\ gcPc' = "select" =>
       /\ DOMAIN data' = {fk \in DOMAIN data : ~Due(data[fk])}
       /\ \A fk \in DOMAIN data' : data'[fk] = data[fk]]_vars

\* A pass has removed the expired entry of key "k", which only a pass
\* removes, and has left an entry of key "j" that is not expired.
C30_SweptOneKeptOther ==
  /\ gcPc = "select" /\ ret = Idle
  /\ buildKey(1, <<"k">>) \in DOMAIN written
  /\ written[buildKey(1, <<"k">>)].expiring
  /\ now > written[buildKey(1, <<"k">>)].until
  /\ buildKey(1, <<"k">>) \notin DOMAIN data
  /\ buildKey(1, <<"j">>) \in DOMAIN data
  /\ ~Due(data[buildKey(1, <<"j">>)])

\* The map holds an entry under full key fk whose expiry has passed.
HoldsDue(fk) == fk \in DOMAIN data /\ Due(data[fk])

\* The last call was made on full key fk, or was a Reset.
Touched(fk) ==
  \/ ret.op = "Reset"
  \/ ret.op \in {"Get", "Delete", "Set"} /\ RetKey = fk

\* C31: in a store built with a positive sweep interval, an entry whose
\* expiry has passed is eventually out of the map, whether or not its key is
\* ever read; in a store built with interval 0 the sweep goroutine does not
\* exist, and an entry whose expiry has passed stays in the map as it is from
\* one step to the next unless that step is a Get, Delete or Set of its key
\* or a Reset.
C31_SweepOrLazy ==
  /\ \A key \in Keys \ {<<>>} :
       (gcTicker /\ HoldsDue(buildKey(1, key)))
         ~> ~HoldsDue(buildKey(1, key))
  /\ [](~gcTicker => gcPc = "none")
  /\ [][\A key \in Keys \ {<<>>} :
          (~gcTicker /\ HoldsDue(buildKey(1, key))
             /\ ~(HoldsDue(buildKey(1, key))'
                    /\ data'[buildKey(1, key)] = data[buildKey(1, key)]))
          => Touched(buildKey(1, key))']_vars

\* In a store with the sweep, the entry of key "k", which no caller reads or
\* deletes, is out of the map after its expiry has passed.
C31_UnreadEntrySwept ==
  /\ gcTicker
  /\ buildKey(1, <<"k">>) \in DOMAIN written
  /\ written[buildKey(1, <<"k">>)].expiring
  /\ now > written[buildKey(1, <<"k">>)].until
  /\ buildKey(1, <<"k">>) \notin DOMAIN data

\* The last call was a read that found an expired record and whose delete of
\* it failed at the backend.
DeleteFailed ==
  ret.op \in {"LoadSession", "Get"} /\ ret.arg = <<ErrConnLost>>

StorageSetFailed ==
  /\ ret.op \in {"SaveSession", "TouchSession"} /\ kind = "redis"
  /\ client[1] = "nil" \/ (client[1] = "closed" /\ ret.key # <<>>)

\* The storage's Get fails in the LoadSession the Manager has made.
StorageGetFailed ==
  ret.op = "LoadSession" /\ kind = "redis" /\ client[1] # "open"

\* C33: a SaveSession or TouchSession whose storage Set fails returns an
\* error, and a LoadSession whose storage Get fails returns an error and no
\* record.
C33_BackendErrorsReturned ==
  /\ StorageSetFailed => ret.err # ErrNil
  /\ StorageGetFailed => ret.err # ErrNil /\ ret.val = Absent

\* TouchSession has returned the error of a store whose client was closed.
C33_TouchedClosedStore ==
  /\ ret.op = "TouchSession" /\ StorageSetFailed
  /\ client[1] = "closed" /\ ret.err = ErrClientClosed

\* C34: KVManager.Refresh(id, ttl) of an id that holds an unexpired record
\* returns no error and leaves the record's ID, Data and CreatedAt as a Get
\* returns them; ExpiresAt and the instant the backend drops the key at
\* become now + ttl, or now + the default where ttl is not positive.
C34_RefreshKeepsRecord ==
  [][ret'.op = "KVRefresh" /\ HoldsLive(rdb, RetKey') =>
       /\ ret'.err = ErrNil
       /\ RetKey' \in DOMAIN rdb'
       /\ RecordAt(rdb', RetKey').ID = RecordAt(rdb, RetKey').ID
       /\ RecordAt(rdb', RetKey').Data = RecordAt(rdb, RetKey').Data
       /\ RecordAt(rdb', RetKey').CreatedAt = RecordAt(rdb, RetKey').CreatedAt
       /\ RecordAt(rdb', RetKey').ExpiresAt.wall = now + OwedTTL(ret'.arg[1])
       /\ rdb'[RetKey'].expireAt = now + OwedTTL(ret'.arg[1])]_vars

\* Refresh with a positive time to live has returned for a record that was
\* created at an earlier clock value and carries data.
C34_RefreshedOlderRecord ==
  /\ ret.op = "KVRefresh" /\ ret.err = ErrNil /\ ret.arg[1] > 0
  /\ RetKey \in DOMAIN rdb
  /\ RecordAt(rdb, RetKey).CreatedAt.wall < now
  /\ RecordAt(rdb, RetKey).Data # EmptyMap
  /\ rdb[RetKey].expireAt = now + ret.arg[1]

\* The entry the last Set to return stored under full key fk has not expired.
LastSetLive(fk) ==
  /\ fk \in DOMAIN written
  /\ ~written[fk].expiring \/ now <= written[fk].until

\* The full key the overlapping calls are made on.
RacedKey == buildKey(1, <<"k">>)

\* C35: a Get that read an entry under the read lock and finds it expired
\* leaves the key's entry alone where a Set has stored another one since;
\* and once no call is under way, a key whose last Set has returned and has
\* not expired holds that Set's payload, so that every Get returns it.
C35_GetKeepsNewerEntry ==
  /\ [][\A p \in Getters :
          (/\ calls[p].pc = "read" /\ calls'[p].pc = "idle"
           /\ calls[p].entry # <<>> /\ RacedKey \in DOMAIN data
           /\ data[RacedKey] # calls[p].entry[1])
          => RacedKey \in DOMAIN data' /\ data'[RacedKey] = data[RacedKey]]_vars
  /\ [](AllReturned /\ LastSetLive(RacedKey) =>
          MemGetResult(data, RacedKey) = Found(written[RacedKey].val))

\* C36: whatever the caller writes into a buffer that Get returned, a Get of
\* a key returns the payload that was last Set for it.
C36_ReturnedBufferIsolated ==
  \A key \in Keys \ {<<>>} :
    LET fk == buildKey(1, key) IN
    kind = "memory" /\ fk \in DOMAIN written /\ MemGetResult(data, fk).found
      => MemGetResult(data, fk).data = written[fk].val

\* C37: in every state and for every id, Exists of the generic record store
\* returns true exactly when Get returns a record.
C37_ExistsIffGet ==
  kind = "store" =>
    \A id \in RedisKeys :
      ExistsResult(rdb, 1, buildKey(1, id)).val = Found(<<TRUE>>)
        <=> RedisStoreGetResult(rdb, 1, buildKey(1, id)).val.found

\* Get of the record store returns a record for the id with full key fk.
Has(fk) == RedisStoreGetResult(rdb, 1, fk).val.found

\* C38, as stated: an id for which no Create or Set was called since its
\* last Delete returned (the history holds no write for it) has no record:
\* Get returns absent, also after a Refresh that was under way when Delete
\* ran.
C38_DeletedStaysAbsent ==
  kind = "store" =>
    \A id \in WrittenIDs :
      buildKey(1, id) \notin DOMAIN written => ~Has(buildKey(1, id))

\* C38, amended: when Delete has returned, Get returns absent for the id,
\* and an id that has no record gets one only by the write of a Create or
\* Set for it, or by the Set of a Refresh of it.
C38_AbsentUntilWritten ==
  /\ [][ret'.op = "Delete" /\ ret'.err = ErrNil => ~(Has(RetKey))']_vars
  /\ [][\A id \in WrittenIDs :
          ~Has(buildKey(1, id)) /\ Has(buildKey(1, id))'
            => ret'.op \in {"Set", "Create", "KVRefresh"}
               /\ RetKey' = buildKey(1, id)]_vars

\* A Refresh has returned and the store holds a record again for an id that
\* was deleted after the last Create or Set for it.
C38_RefreshBroughtBack ==
  /\ ret.op = "KVRefresh" /\ ret.err = ErrNil
  /\ RetKey \notin DOMAIN written
  /\ Has(RetKey)

\* The store holds the serialization of the record the last call saved,
\* under the record's id.
SavedRecordStored ==
  /\ RetKey \in DOMAIN Stored(St)
  /\ Stored(St)[RetKey] = MarshalSession(ret.arg[1])

\* C39, as stated: after a SaveSession that returned no error the store
\* holds the record's serialization under its id, whatever the id is, the
\* empty id included.
C39_SavedIsStoredAlways ==
  ret.op = "SaveSession" /\ ret.err = ErrNil => SavedRecordStored

\* C39, amended: after a SaveSession that returned no error the store holds
\* the record's serialization under its id where the id is not empty; for a
\* record with the empty id SaveSession returns no error and leaves the
\* store as it was.
C39_SavedIsStored ==
  [][ret'.op = "SaveSession" /\ ret'.err = ErrNil =>
       IF ret'.key # <<>> THEN SavedRecordStored'
       ELSE Stored(St)' = Stored(St)]_vars

\* SaveSession has returned no error for a record with the empty id, and the
\* store holds nothing under the key of that id.
C39_SavedEmptyID ==
  /\ ret.op = "SaveSession" /\ ret.err = ErrNil /\ ret.key = <<>>
  /\ RetKey \notin DOMAIN Stored(St)

\* The payload under fk in db is one RedisStore.Get cannot decode.
Unreadable(db, fk) ==
  fk \in DOMAIN db /\ UnmarshalRecordErr(db[fk].val) # ErrNil

\* The last call was a Set whose Get of the existing payload failed on the
\* payload: it could not be decoded, or it could not be read from the server.
PreReadFailed ==
  /\ ret.op = "Set" /\ kind = "store"
  /\ ret.arg \in {<<ErrUnmarshalRecord>>, <<ErrConnLost>>}

\* C40: RedisStore.Set(id, data, ttl) on an id whose stored payload its Get
\* cannot read or decode does not report that: it returns no error, writes
\* the new record over the payload, and the record's CreatedAt is now, with
\* nothing of the old payload carried forward.  (Get itself, on a payload it
\* cannot decode, returns the error.)
C40_SetOverUnreadable ==
  /\ [][PreReadFailed' =>
          /\ ret'.err = ErrNil
          /\ RetKey' \in DOMAIN rdb' /\ ~Unreadable(rdb', RetKey')
          /\ MarshalMap(RecordAt(rdb', RetKey').Data)
               = MarshalMap(written'[RetKey'].val)
          /\ RecordAt(rdb', RetKey').ID = ret'.key
          /\ RecordAt(rdb', RetKey').CreatedAt.wall = now
          /\ RecordAt(rdb', RetKey').ExpiresAt.wall
               = now + written'[RetKey'].ttl]_vars
  /\ [][ret'.op = "Set" /\ kind = "store" /\ ClientErr(1) = ErrNil
          /\ Unreadable(rdb, RetKey') => PreReadFailed']_vars
  /\ [][ret'.op = "Get" /\ kind = "store" /\ ClientErr(1) = ErrNil
          /\ Unreadable(rdb, RetKey') =>
            ret'.err = ErrUnmarshalRecord /\ rdb' = rdb]_vars

\* Set has returned no error after its Get failed on a payload that was
\* written at an earlier clock value, and the record now there was created
\* at the current one.
C40_OverwroteUnreadable ==
  /\ PreReadFailed /\ ret.err = ErrNil /\ ret.arg = <<ErrUnmarshalRecord>>
  /\ now > 1
  /\ RecordAt(rdb, RetKey).CreatedAt.wall = now

=============================================================================
